---- MODULE Spec2Model ----
(***************************************************************************)
(* State-machine model of the research agent's execution core:             *)
(*   agent/orchestrator.py  ResearchAgent.research, _execute_steps,        *)
(*                          _execute_search_step, _search_with_refine      *)
(*   agent/refiner.py       Refiner.refine_search_results, _llm_refine     *)
(*   agent/strategist.py    Strategist.plan_research_strategy              *)
(*   utils/session_manager.py  TurnData, SessionManager                    *)
(* Scores are kept in tenths (0.5 is 5, 1.0 is 10).                        *)
(***************************************************************************)
EXTENDS Integers, Sequences, FiniteSets, TLC

VARIABLES
    pc,                 \* position of the research() call
    strategy,           \* the ResearchStrategy returned by the planner (or NoPlan)
    stepIdx,            \* index into strategy.steps of the step being walked
    step_results,       \* _execute_steps: step_id -> list of stored results
    all_refined_data,   \* _execute_steps: accumulated refined data
    all_search_queries, \* _execute_steps: recorded query strings
    urls_used,          \* _execute_steps: urls of accumulated results
    tasks,              \* the running _search_with_refine coroutines of the step
    order,              \* completion order of the coroutines of the step
    step_refined_data,  \* _execute_steps: the list the step's _execute_search_step returned
    processed,          \* step ids that were dispatched (search) or marked (generation)
    skipped,            \* step ids skipped for a missing dependency
    exc,                \* description of the exception being handled ("none" if none)
    outcome,            \* what research() produced
    genCalls,           \* number of AnswerGenerator.generate_answer invocations
    conversation,       \* session store: roles of the saved messages
    turns,              \* session store: the recorded turns
    planner_in,         \* what the generation service answered the planner
    refiner_call,       \* a direct call of Refiner.refine_search_results
    augmenter,          \* a call of ContextResolver.add_context
    previous_data,      \* the dependency results collected for a step's augmentation
    session_calls,      \* the session_manager methods called so far, in order
    progress_callback,  \* the progress_callback argument of research()
    metadata,           \* session store: the session's metadata.json
    now,                \* datetime.now(), in minutes
    returned,           \* what the last SessionManager call returned
    calls,              \* research() calls running on one session, by position
    doubles             \* the scripted search and refiner doubles of a test run

vars == <<pc, strategy, stepIdx, step_results, all_refined_data, all_search_queries,
          urls_used, tasks, order, step_refined_data, processed, skipped, exc, outcome,
          genCalls, conversation, turns, planner_in, refiner_call, augmenter,
          previous_data, session_calls, progress_callback, metadata, now, returned,
          calls, doubles>>

(***************************************************************************)
(* Bounds of the model                                                     *)
(***************************************************************************)
MaxSteps == 2
MaxQueries == 2

(***************************************************************************)
(* Program constants                                                       *)
(***************************************************************************)
max_retries == 3
refiner_max_retries == 1
SubstantialLen == 50
RetryScore == 5
ApiErrorScore == 5
ParseFallbackScore == 6
BasicSources == 3
FallbackConfidence == 5
MaxScore == 10
add_context_max_retries == 3

\* the query string of the j-th query of the step at position k
Q(k, j) == 10 * k + j

\* the user's query passed to research()
UserQuery == Q(0, 0)

(***************************************************************************)
(* Python list helpers                                                     *)
(***************************************************************************)
Range(s) == {s[i] : i \in DOMAIN s}

Min(a, b) == IF a < b THEN a ELSE b

\* list(range(n))
PyRange(n) == [i \in 1..n |-> i - 1]

\* does s[i] raise IndexError (0-based, negative indices count from the end)
IndexError(s, i) == i >= Len(s) \/ i < 0 - Len(s)

\* s[i] with Python's 0-based, wrap-around indexing
PyIndex(s, i) == IF i >= 0 THEN s[i + 1] ELSE s[Len(s) + i + 1]

(***************************************************************************)
(* Result dicts of the resolver.  error = "none" stands for a dict without *)
(* an "error" key; NoResult stands for best_result = None.                 *)
(***************************************************************************)
NoResult == [refined_data |-> "null", sources |-> <<>>, query |-> 0 - 1,
             score |-> 0 - 1, error |-> "none"]

\* orchestrator.py 418-424: the structured failure result
SentinelResult(query) ==
    [refined_data |-> "unable", sources |-> <<>>, query |-> query, score |-> 0,
     error |-> "all_attempts_failed"]

\* orchestrator.py 309-315: the dict built for an exception returned by gather
ExceptionResult(query, e) ==
    [refined_data |-> "exception", sources |-> <<>>, query |-> query, score |-> 0,
     error |-> e]

(***************************************************************************)
(* Refiner (agent/refiner.py)                                              *)
(***************************************************************************)
\* Refiner._llm_refine: g is what the generation service did, results the
\* filtered documents.  Every failure is caught inside and answered with the
\* 0.6 fallback, so the method itself never raises.
_llm_refine(g, results) ==
    IF g.kind = "ok" /\ g.score \in 0..MaxScore
    THEN [raised |-> FALSE, score |-> g.score, extracted_info |-> "llm",
          source_indices |-> g.source_indices]
    ELSE [raised |-> FALSE, score |-> ParseFallbackScore, extracted_info |-> "basic",
          source_indices |-> PyRange(Min(BasicSources, Len(results)))]

\* variant of refine_search_results that ignores the attempt budget
refine_search_results_no_budget(g, results, retry_count) ==
    LET refined == _llm_refine(g, results) IN
    [score |-> refined.score, should_retry |-> refined.score < RetryScore,
     refined_data |-> refined.extracted_info, source_indices |-> refined.source_indices]

\* variant of refine_search_results whose budget allows one more retry
refine_search_results_budget_two(g, results, retry_count) ==
    LET refined == _llm_refine(g, results) IN
    [score |-> refined.score,
     should_retry |-> refined.score < RetryScore /\ retry_count < refiner_max_retries + 1,
     refined_data |-> refined.extracted_info, source_indices |-> refined.source_indices]

\* Refiner.refine_search_results
refine_search_results(g, results, retry_count) ==
    LET refined == _llm_refine(g, results) IN
    IF ~refined.raised
    THEN [score |-> refined.score,
          should_retry |-> refined.score < RetryScore /\ retry_count < refiner_max_retries,
          refined_data |-> refined.extracted_info,
          source_indices |-> refined.source_indices]
    ELSE [score |-> ApiErrorScore,
          should_retry |-> retry_count < refiner_max_retries,
          refined_data |-> "basic",
          source_indices |-> PyRange(Min(BasicSources, Len(results)))]

(***************************************************************************)
(* Single-query resolver (orchestrator.py _search_with_refine)             *)
(***************************************************************************)
\* variant that hands every returned document on
_validate_search_results_unfiltered(search_results) ==
    [ok |-> TRUE, results |-> search_results]

\* ResearchAgent._validate_search_results: None (ok = FALSE) or the documents
\* whose stripped content is longer than 50 characters
_validate_search_results(search_results) ==
    LET results_with_content ==
            SelectSeq(search_results, LAMBDA r : r.clen > SubstantialLen) IN
    IF Len(search_results) = 0 THEN [ok |-> FALSE, results |-> <<>>]
    ELSE IF results_with_content = <<>> THEN [ok |-> FALSE, results |-> <<>>]
    ELSE [ok |-> TRUE, results |-> results_with_content]

\* the indices the comprehension of lines 382-390 keeps: i < len(results)
KeptIndices(source_indices, results) ==
    SelectSeq(source_indices, LAMBDA i : i < Len(results))

\* lines 382-390: the sources comprehension; it raises IndexError for a kept
\* index below -len(results)
SourcesRaise(source_indices, results) ==
    \E k \in DOMAIN KeptIndices(source_indices, results) :
        IndexError(results, KeptIndices(source_indices, results)[k])

BuildSources(source_indices, results) ==
    LET kept == KeptIndices(source_indices, results) IN
    [k \in DOMAIN kept |-> PyIndex(results, kept[k]).url]

\* variant in which the attempt counter outlives the invocation
NewTaskSharedCounter(query) ==
    LET carried == IF tasks = <<>> THEN 0 ELSE tasks[Len(tasks)].retry_count IN
    [pc |-> IF carried <= max_retries THEN "run" ELSE "done",
     query |-> query, retry_count |-> carried, best_result |-> NoResult,
     result |-> IF carried <= max_retries THEN NoResult ELSE SentinelResult(query),
     searches |-> 0, refines |-> 0, refiner_input |-> <<>>, err |-> "none"]

\* a fresh coroutine of _search_with_refine(query): lines 351-353
NewTask(query) ==
    [pc |-> "run", query |-> query, retry_count |-> 0, best_result |-> NoResult,
     result |-> NoResult, searches |-> 0, refines |-> 0, refiner_input |-> <<>>,
     err |-> "none"]

\* variant that answers an exhausted loop with the failure result always
AfterLoopSentinel(t) ==
    [t EXCEPT !.pc = "done", !.result = SentinelResult(t.query)]

\* lines 408-424: what is returned once the while loop is left
AfterLoop(t) ==
    [t EXCEPT !.pc = "done",
              !.result = IF t.best_result # NoResult THEN t.best_result
                         ELSE SentinelResult(t.query)]

\* variant of the loop condition that admits one more iteration
LoopCheckOffByOne(t) == IF t.retry_count <= max_retries + 1 THEN t ELSE AfterLoop(t)

\* line 355: the loop condition, evaluated after a `continue`
LoopCheck(t) == IF t.retry_count <= max_retries THEN t ELSE AfterLoop(t)

\* variant in which an attempt that ties the best replaces it
TrackBestLatest(best, current) ==
    IF best = NoResult \/ current.score >= best.score THEN current ELSE best

\* lines 395-397: track the best result so far
TrackBest(best, current) ==
    IF best = NoResult \/ current.score > best.score THEN current ELSE best

\* variant that hands back the best result so far on the early exit
EarlyExitBest(best, current) == best

\* lines 399-406: what is returned when the refiner does not ask for a retry
EarlyExit(best, current) == current

\* One iteration of the while loop of _search_with_refine (lines 355-406) for
\* coroutine t: s is what search_provider.search did, refine_result what
\* refiner.refine_search_results returned (read only when it is called).
_search_with_refine(t, s, refine_result) ==
    IF s.raised
    THEN [t EXCEPT !.pc = "raised", !.searches = @ + 1, !.err = "SearchError"]
    ELSE
    LET validation_result == _validate_search_results(s.docs) IN
    IF ~validation_result.ok
    THEN LoopCheck([t EXCEPT !.searches = @ + 1, !.retry_count = @ + 1])
    ELSE
    LET results_with_content == validation_result.results IN
    IF SourcesRaise(refine_result.source_indices, results_with_content)
    THEN [t EXCEPT !.pc = "raised", !.searches = @ + 1, !.refines = @ + 1,
                   !.refiner_input = results_with_content, !.err = "IndexError"]
    ELSE
    LET current_result ==
            [refined_data |-> refine_result.refined_data,
             sources |-> BuildSources(refine_result.source_indices, results_with_content),
             query |-> t.query, score |-> refine_result.score, error |-> "none"]
        best == TrackBest(t.best_result, current_result)
    IN
    IF refine_result.should_retry
    THEN LoopCheck([t EXCEPT !.searches = @ + 1, !.refines = @ + 1,
                             !.refiner_input = results_with_content,
                             !.best_result = best, !.retry_count = @ + 1])
    ELSE [t EXCEPT !.pc = "done", !.searches = @ + 1, !.refines = @ + 1,
                   !.refiner_input = results_with_content,
                   !.best_result = best, !.result = EarlyExit(best, current_result)]

\* the same iteration with the agent's own Refiner: g is what the refiner's
\* generation service did
Attempt(t, s, g) ==
    _search_with_refine(t, s,
        refine_search_results(g, _validate_search_results(s.docs).results,
                              t.retry_count))

(***************************************************************************)
(* Plans (models/strategist_models.py) and the planner                     *)
(***************************************************************************)
Step(id, action, mode, deps, queries) ==
    [step_id |-> id, action |-> action, mode |-> mode, depends_on |-> deps,
     search_queries |-> queries]

\* the steps a generated plan may carry at position k
Shapes(k) ==
    { Step(k, "search", "single", <<>>, <<Q(k, 1)>>),
      Step(k, "search", "parallel", <<>>, [j \in 1..MaxQueries |-> Q(k, j)]),
      Step(k, "search", "single", <<>>, [j \in 1..MaxQueries |-> Q(k, j)]),
      Step(k, "search", "parallel", <<>>, <<>>),
      Step(k, "generation", "single", IF k > 1 THEN <<k - 1>> ELSE <<>>, <<>>),
      Step(k, "generation", "single", <<k + 1>>, <<>>),
      Step(k, "search", "single", IF k > 1 THEN <<k - 1>> ELSE <<k + 1>>, <<Q(k, 1)>>) }

AllShapes == UNION {Shapes(k) : k \in 1..MaxSteps}

StepLists ==
    UNION { {s \in [1..n -> AllShapes] : \A k \in 1..n : s[k] \in Shapes(k)}
            : n \in 1..MaxSteps }

\* JSON documents the generation service may answer the planner with
GeneratedPlans ==
    { [execution_type |-> IF Len(s) = 1 THEN "single" ELSE "chain", steps |-> s,
       confidence |-> 8] : s \in StepLists }
    \cup { [execution_type |-> "single", steps |-> <<>>, confidence |-> 8],
           [execution_type |-> "single",
            steps |-> <<Step(1, "search", "single", <<>>, <<Q(1, 1)>>)>>,
            confidence |-> MaxScore + 1],
           [execution_type |-> "chain",
            steps |-> <<Step(1, "browse", "single", <<>>, <<Q(1, 1)>>)>>,
            confidence |-> 8],
           [execution_type |-> "single",
            steps |-> <<Step(1, "search", "serial", <<>>, <<Q(1, 1)>>)>>,
            confidence |-> 8],
           [execution_type |-> "graph",
            steps |-> <<Step(1, "search", "single", <<>>, <<Q(1, 1)>>)>>,
            confidence |-> 8],
           [execution_type |-> "single",
            steps |-> <<Step(1, "search", "single", <<>>, <<Q(1, 1)>>)>>,
            confidence |-> 0 - 1] }

PlannerOutcomes ==
    { [kind |-> "raise", plan |-> <<>>], [kind |-> "malformed", plan |-> <<>>] }
    \cup { [kind |-> "json", plan |-> <<p>>] : p \in GeneratedPlans }

\* variant that accepts any action and mode
ExecutionStepAny(s) == TRUE

\* pydantic validation of ExecutionStep
ExecutionStepValid(s) ==
    /\ s.action \in {"search", "generation"}
    /\ s.mode \in {"single", "parallel"}

\* pydantic validation of ResearchStrategy
ResearchStrategyValid(p) ==
    /\ p.execution_type \in {"single", "chain"}
    /\ Len(p.steps) >= 1
    /\ \A k \in DOMAIN p.steps : ExecutionStepValid(p.steps[k])
    /\ p.confidence >= 0 /\ p.confidence <= MaxScore

\* strategist.py 80-95 and 100-114: the default single strategy
FallbackStrategy(query) ==
    [execution_type |-> "single",
     steps |-> <<Step(1, "search", "single", <<>>, <<query>>)>>,
     confidence |-> FallbackConfidence]

\* variant of the planner that returns parsed output without validating it
plan_research_strategy_unvalidated(query, o) ==
    IF o.kind = "json" THEN o.plan[1] ELSE FallbackStrategy(query)

\* Strategist.plan_research_strategy
plan_research_strategy(query, o) ==
    IF o.kind = "raise" THEN FallbackStrategy(query)
    ELSE IF o.kind = "json" /\ ResearchStrategyValid(o.plan[1]) THEN o.plan[1]
    ELSE FallbackStrategy(query)

NoPlan == [execution_type |-> "none", steps |-> <<>>, confidence |-> 0]

(***************************************************************************)
(* Context augmenter (agent/context_resolver.py)                           *)
(***************************************************************************)
\* the query text a generated replacement step carries for query j of step k
AugQ(k, j) == Q(k, j) + MaxQueries + 1

\* build_user_prompt: the prompt is a function of the step (and of the context
\* and history, fixed during one call)
build_user_prompt(current_step) == [prompt_for |-> current_step]

\* the JSON bodies the generation service may put in its answer for step cur
AugmenterBodies(cur) ==
    LET k == cur.step_id
        aug == [j \in 1..MaxQueries |-> AugQ(k, j)]
    IN
    { [kind |-> "notjson", step |-> cur],
      [kind |-> "json", step |-> [cur EXCEPT !.action = "browse"]],
      [kind |-> "json", step |-> [cur EXCEPT !.search_queries = aug]],
      [kind |-> "json", step |-> [cur EXCEPT !.search_queries = <<AugQ(k, 1)>>]],
      [kind |-> "json", step |-> [cur EXCEPT !.step_id = k + 1, !.search_queries = aug]],
      [kind |-> "json", step |-> [cur EXCEPT !.mode = IF @ = "single" THEN "parallel"
                                                      ELSE "single"]],
      [kind |-> "json", step |-> [cur EXCEPT !.depends_on = <<>>]],
      [kind |-> "json", step |-> [cur EXCEPT !.action = "generation"]] }

\* llm_client.generate for the augmenter: raises, or answers with text that
\* wraps a body in <response> tags, in a markdown fence, in both, in nothing,
\* or in prose without tags
AugmenterOutcomes(cur) ==
    { [kind |-> "raise", wrap |-> "none", body |-> [kind |-> "notjson", step |-> cur]] }
    \cup { [kind |-> "text", wrap |-> w, body |-> b] :
              w \in {"tag", "tag_fence", "fence", "bare", "prose"},
              b \in AugmenterBodies(cur) }

\* lines 76-87: the text handed to the parser.  Tags and code fences are
\* stripped; without tags the whole response is used, so a body surrounded by
\* prose does not parse
ExtractJson(o) ==
    IF o.wrap \in {"tag", "tag_fence", "fence", "bare"} THEN o.body
    ELSE [kind |-> "notjson", step |-> o.body.step]

\* line 90: ExecutionStep.model_validate_json
ParsesAsStep(json_text) == json_text.kind = "json" /\ ExecutionStepValid(json_text.step)

NoAugmenterCall ==
    [pc |-> "idle", current_step |-> Step(0, "none", "none", <<>>, <<>>),
     max_retries |-> 0, retry_count |-> 0, sent |-> <<>>,
     response |-> [kind |-> "none", wrap |-> "none",
                   body |-> [kind |-> "notjson",
                             step |-> Step(0, "none", "none", <<>>, <<>>)]],
     result |-> Step(0, "none", "none", <<>>, <<>>)]

\* variant of the loop that gives up one failure later
add_context_one_more(a, o) ==
    LET json_text == ExtractJson(o)
        called == [a EXCEPT !.sent = Append(@, build_user_prompt(a.current_step)),
                            !.response = o]
    IN
    IF o.kind = "text" /\ ParsesAsStep(json_text)
    THEN [called EXCEPT !.pc = "done", !.result = json_text.step]
    ELSE IF a.retry_count + 1 <= a.max_retries
         THEN [called EXCEPT !.retry_count = @ + 1]
         ELSE [called EXCEPT !.retry_count = @ + 1, !.pc = "done",
                             !.result = a.current_step]

\* ContextResolver.add_context, one iteration of its while loop (lines 67-101):
\* a is the call's state, o what llm_client.generate did
add_context(a, o) ==
    LET json_text == ExtractJson(o)
        called == [a EXCEPT !.sent = Append(@, build_user_prompt(a.current_step)),
                            !.response = o]
    IN
    IF o.kind = "text" /\ ParsesAsStep(json_text)
    THEN [called EXCEPT !.pc = "done", !.result = json_text.step]
    ELSE IF a.retry_count + 1 < a.max_retries
         THEN [called EXCEPT !.retry_count = @ + 1]
         ELSE [called EXCEPT !.retry_count = @ + 1, !.pc = "done",
                             !.result = a.current_step]

(***************************************************************************)
(* Session store (utils/session_manager.py)                                *)
(***************************************************************************)
\* the session directory before create_session: is_session_active lines 72-77
NoMetadata ==
    [status |-> "missing", last_activity |-> 0, ended_at |-> -1, end_reason |-> "none"]

\* no SessionManager call has returned yet
NoReturn == [op |-> "none", active |-> FALSE, history |-> <<>>, count |-> 0]

\* SessionManager.__init__: timeout_minutes, the default
timeout_minutes == 30

\* SessionManager.create_session: the metadata it writes at time t
create_session(t) ==
    [status |-> "active", last_activity |-> t, ended_at |-> -1, end_reason |-> "none"]

\* variant that leaves the status as it was
_end_session_internal_status_kept(m, reason, t) ==
    IF m.status = "missing" THEN m
    ELSE [m EXCEPT !.ended_at = t, !.end_reason = reason]

\* SessionManager._end_session_internal: marks the metadata ended, if the file exists
_end_session_internal(m, reason, t) ==
    IF m.status = "missing" THEN m
    ELSE [m EXCEPT !.status = "ended", !.ended_at = t, !.end_reason = reason]

\* SessionManager.end_session
end_session(m, reason, t) == _end_session_internal(m, reason, t)

\* SessionManager.is_session_active: the answer and the metadata it leaves; a
\* session found timed out is marked ended
is_session_active(m, t) ==
    IF m.status = "missing" THEN [active |-> FALSE, metadata |-> m]
    ELSE IF m.status = "ended" THEN [active |-> FALSE, metadata |-> m]
    ELSE IF t - m.last_activity > timeout_minutes
         THEN [active |-> FALSE, metadata |-> _end_session_internal(m, "timeout", t)]
         ELSE [active |-> TRUE, metadata |-> m]

\* SessionManager.update_last_activity: no look at the status
update_last_activity(m, t) ==
    IF m.status = "missing" THEN m ELSE [m EXCEPT !.last_activity = t]

\* SessionManager.save_conversation_message: the metadata and conversation it leaves
save_conversation_message(m, t, conv, role) ==
    LET a == is_session_active(m, t)
    IN  IF ~a.active
        THEN [metadata |-> a.metadata, conversation |-> conv]
        ELSE [metadata |-> update_last_activity(a.metadata, t),
              conversation |-> Append(conv, role)]

\* SessionManager.save_turn: the metadata and turns it leaves
save_turn(m, t, ts, turn_data) ==
    LET a == is_session_active(m, t)
    IN  IF ~a.active
        THEN [metadata |-> a.metadata, turns |-> ts]
        ELSE [metadata |-> update_last_activity(a.metadata, t),
              turns |-> Append(ts, turn_data)]

\* SessionManager.load_conversation_history: the list returned and the metadata left
load_conversation_history(m, t, conv) ==
    LET a == is_session_active(m, t)
    IN  IF ~a.active
        THEN [metadata |-> a.metadata, history |-> <<>>]
        ELSE [metadata |-> update_last_activity(a.metadata, t), history |-> conv]

\* SessionManager.get_turn_history
get_turn_history(m, t, ts) ==
    LET a == is_session_active(m, t)
    IN  IF ~a.active
        THEN [metadata |-> a.metadata, history |-> <<>>]
        ELSE [metadata |-> a.metadata, history |-> ts]

\* SessionManager.get_turn_count
get_turn_count(m, t, ts) ==
    LET h == get_turn_history(m, t, ts)
    IN  [metadata |-> h.metadata, count |-> Len(h.history)]

\* fields of the TurnData dataclass; none has a default
TurnDataFields ==
    {"turn_id", "query", "strategy", "search_queries", "urls_opened", "refined_data",
     "raw_search_results", "final_answer", "citations", "timestamp", "duration_ms"}

\* keyword arguments _save_turn_to_session passes to TurnData (lines 486-497)
TurnDataKwargs ==
    {"turn_id", "query", "strategy", "search_queries", "urls_opened", "refined_data",
     "final_answer", "citations", "timestamp", "duration_ms"}

\* variant that builds the turn and numbers it with the count itself
_save_turn_to_session_count_as_id(ts, tag) ==
    [raised |-> FALSE, turns |-> Append(ts, [turn_id |-> Len(ts), strategy |-> tag]),
     calls |-> <<"get_turn_count", "save_turn">>]

\* ResearchAgent._save_turn_to_session: TurnData(...) raises TypeError when a
\* required field is not passed; otherwise save_turn appends the turn
_save_turn_to_session(ts, tag) ==
    IF TurnDataFields \subseteq TurnDataKwargs
    THEN [raised |-> FALSE, turns |-> Append(ts, [turn_id |-> Len(ts) + 1, strategy |-> tag]),
          calls |-> <<"get_turn_count", "save_turn">>]
    ELSE [raised |-> TRUE, turns |-> ts, calls |-> <<"get_turn_count">>]

(***************************************************************************)
(* Aggregation (orchestrator.py 222-245) and citations                     *)
(***************************************************************************)
Successful(d) == d.score > 0

\* variant that accumulates every entry, whatever its score
CollectRefinedAll(queries, data) ==
    SubSeq(data, 1, Min(Len(queries), Len(data)))

\* the entries of step_refined_data the loop of lines 224-240 appends
CollectRefined(queries, data) ==
    SelectSeq(SubSeq(data, 1, Min(Len(queries), Len(data))), Successful)

RECURSIVE Flatten(_)
Flatten(ss) == IF ss = <<>> THEN <<>> ELSE Head(ss) \o Flatten(Tail(ss))

CollectUrls(queries, data) ==
    LET kept == CollectRefined(queries, data) IN
    Flatten([k \in DOMAIN kept |-> kept[k].sources])

\* variant that stores the full list, zero-score entries included
StoredResultsAll(data) == data

\* lines 242-244: what is stored under the step's id
StoredResults(data) == SelectSeq(data, Successful)

RECURSIVE Dedup(_, _)
Dedup(s, seen) ==
    IF s = <<>> THEN <<>>
    ELSE IF Head(s) \in seen THEN Dedup(Tail(s), seen)
    ELSE <<Head(s)>> \o Dedup(Tail(s), seen \cup {Head(s)})

\* variant that cites every source
_extract_citations_all(refined_data) ==
    Flatten([k \in DOMAIN refined_data |-> refined_data[k].sources])

\* AnswerGenerator._extract_citations: one citation per distinct non-empty url
_extract_citations(refined_data) ==
    Dedup(SelectSeq(Flatten([k \in DOMAIN refined_data |-> refined_data[k].sources]),
                    LAMBDA url : url # ""), {})

NoOutcome ==
    [kind |-> "pending", answer |-> "none", confidence |-> "none", citations |-> <<>>,
     urls |-> <<>>, exc |-> "none"]

\* orchestrator.py 457-469
_create_no_results_response ==
    [kind |-> "returned", answer |-> "no_results", confidence |-> "low",
     citations |-> <<>>, urls |-> <<>>, exc |-> "none"]

\* AnswerGenerator._calculate_confidence
_calculate_confidence(refined_data) ==
    LET total == Len(Flatten([k \in DOMAIN refined_data |-> refined_data[k].sources])) IN
    IF total >= 3 THEN "high" ELSE IF total >= 2 THEN "medium" ELSE "low"

\* list(set(xs)): the distinct elements in an order the caller cannot rely on
ListOfSet(xs) ==
    {s \in [1..Cardinality(Range(xs)) -> Range(xs)] : Range(s) = Range(xs)}

\* orchestrator.py 126-131 with AnswerGenerator.generate_answer; urls is the
\* list built at line 130
SynthesizedResponse(refined_data, urls) ==
    [kind |-> "returned", answer |-> "synthesized",
     confidence |-> _calculate_confidence(refined_data),
     citations |-> _extract_citations(refined_data), urls |-> urls,
     exc |-> "none"]

\* orchestrator.py 143-153
ErrorResponse(e) ==
    [kind |-> "returned", answer |-> "error", confidence |-> "low", citations |-> <<>>,
     urls |-> <<>>, exc |-> e]

(***************************************************************************)
(* What the external services may do on one call                           *)
(***************************************************************************)
ThinDoc == [url |-> "T", clen |-> SubstantialLen]
DocA == [url |-> "A", clen |-> SubstantialLen + 1]
DocB == [url |-> "B", clen |-> 8 * SubstantialLen]

\* search_provider.search: raises, or returns a list of documents
SearchReturns ==
    { [raised |-> TRUE, docs |-> <<>>],
      [raised |-> FALSE, docs |-> <<>>],
      [raised |-> FALSE, docs |-> <<ThinDoc>>],
      [raised |-> FALSE, docs |-> <<DocA, ThinDoc, DocB>>] }

\* the refiner's generation service: raises, or answers with a judgment
RefinerOutcomes ==
    { [kind |-> "raise", score |-> 0, source_indices |-> <<>>],
      [kind |-> "ok", score |-> 0, source_indices |-> <<1>>],
      [kind |-> "ok", score |-> 3, source_indices |-> <<0>>],
      [kind |-> "ok", score |-> 8, source_indices |-> <<0, 2>>],
      [kind |-> "ok", score |-> 8, source_indices |-> <<0 - 3>>] }

(***************************************************************************)
(* The walk of _execute_steps                                              *)
(***************************************************************************)
Steps == strategy.steps

CurStep == Steps[stepIdx]

Walking == pc = "steps" /\ stepIdx <= Len(Steps)

\* variant without the dependency check
MissingDepsUnchecked(step, results) == {}

\* line 184: the dependencies not yet in step_results
MissingDeps(step, results) ==
    {step.depends_on[k] : k \in DOMAIN step.depends_on} \ DOMAIN results

\* variant that takes a coroutine for finished while it still runs
FinishedAlways(t) == TRUE

\* a coroutine gather no longer waits for
Finished(t) == t.pc \in {"done", "raised"}

\* variant that collects the results in completion order
GatherByCompletion(ts, queries, ord) ==
    [k \in DOMAIN ord |->
        IF ts[ord[k]].pc = "done" THEN ts[ord[k]].result
        ELSE ExceptionResult(queries[k], ts[ord[k]].err)]

\* variant that drops the resolutions that raised
GatherDropFailed(ts, queries, ord) ==
    LET done == SelectSeq(ts, LAMBDA t : t.pc = "done") IN
    [k \in DOMAIN done |-> done[k].result]

\* lines 299-326: asyncio.gather(return_exceptions=True) and the loop that
\* turns each returned exception into an error dict
Gather(ts, queries, ord) ==
    [i \in DOMAIN ts |->
        IF ts[i].pc = "done" THEN ts[i].result
        ELSE ExceptionResult(queries[i], ts[i].err)]

\* variant that hands every query of a step to the resolver in either mode
DispatchedQueriesAll(step) == step.search_queries

\* the queries _execute_search_step hands to _search_with_refine: none for an
\* empty list, the first alone in single mode, all of them in parallel mode
DispatchedQueries(step) ==
    IF step.search_queries = <<>> THEN <<>>
    ELSE IF step.mode = "single" THEN <<step.search_queries[1]>>
    ELSE step.search_queries

\* the list _execute_search_step returns
SearchStepData(step, ts, ord) ==
    IF step.search_queries = <<>> THEN <<>>
    ELSE IF step.mode = "single"
         THEN (IF ts[1].pc = "raised" THEN <<>> ELSE <<ts[1].result>>)
         ELSE Gather(ts, step.search_queries, ord)

NoPlannerOutcome == [kind |-> "none", plan |-> <<>>]

NoDoubles == [search |-> <<>>, refine |-> <<>>]

NoRefinerCall ==
    [called |-> FALSE, g |-> [kind |-> "none", score |-> 0, source_indices |-> <<>>],
     nresults |-> 0, retry_count |-> 0,
     out |-> [score |-> 0, should_retry |-> FALSE, refined_data |-> "none",
              source_indices |-> <<>>]]

Init ==
    /\ pc = "start"
    /\ strategy = NoPlan
    /\ stepIdx = 1
    /\ step_results = <<>>
    /\ all_refined_data = <<>>
    /\ all_search_queries = <<>>
    /\ urls_used = <<>>
    /\ tasks = <<>>
    /\ order = <<>>
    /\ step_refined_data = <<>>
    /\ processed = {}
    /\ skipped = {}
    /\ exc = "none"
    /\ outcome = NoOutcome
    /\ genCalls = 0
    /\ conversation = <<>>
    /\ turns = <<>>
    /\ planner_in = NoPlannerOutcome
    /\ refiner_call = NoRefinerCall
    /\ augmenter = NoAugmenterCall
    /\ progress_callback = "none"
    /\ session_calls = <<>>
    /\ metadata = NoMetadata
    /\ now = 0
    /\ returned = NoReturn
    /\ calls = <<>>
    /\ previous_data = <<>>
    /\ doubles = NoDoubles

\* research() lines 76-89: the session_manager methods called for a session id
\* that is absent ("none"), active or inactive, and a conversation history
\* that is absent ("none") or given
SessionSetup(session_id, conversation_history) ==
    (IF session_id = "none" THEN <<"create_session">>
     ELSE IF session_id = "active" THEN <<"is_session_active">>
     ELSE <<"is_session_active", "create_session">>)
    \o (IF conversation_history = "none" THEN <<"load_conversation_history">> ELSE <<>>)
    \o <<"save_conversation_message">>

\* research() lines 76-89: the session is set up and the user query saved
StartResearch(session_id, conversation_history) ==
    /\ pc = "start"
    /\ conversation' = Append(conversation, "user")
    /\ session_calls' = session_calls \o SessionSetup(session_id, conversation_history)
    /\ pc' = "plan"
    /\ UNCHANGED <<metadata, now, returned, calls, progress_callback, previous_data, augmenter, doubles, strategy, stepIdx, step_results, all_refined_data, all_search_queries,
                   urls_used, tasks, order, step_refined_data, processed, skipped, exc,
                   outcome, genCalls, turns, planner_in, refiner_call>>

\* research() lines 91-93: emit hands the message to progress_callback when one
\* was given; TRUE when that call raises
emit(callback) == callback = "raises"

\* research() lines 97-98: the first message is emitted and the planner called
Plan(o) ==
    /\ pc = "plan"
    /\ IF emit(progress_callback)
       THEN /\ exc' = "CallbackError"
            /\ pc' = "except"
            /\ UNCHANGED <<strategy, planner_in>>
       ELSE /\ strategy' = plan_research_strategy(UserQuery, o)
            /\ planner_in' = o
            /\ pc' = "steps"
            /\ exc' = exc
    /\ UNCHANGED <<metadata, now, returned, calls, progress_callback, session_calls, previous_data, augmenter, doubles, stepIdx, step_results, all_refined_data, all_search_queries,
                   urls_used, tasks, order, step_refined_data, processed, skipped,
                   outcome, genCalls, conversation, turns, refiner_call>>

\* variant that files a skipped step as completed without results
ContinueSkippedMarked(step, results) == (step.step_id :> <<>>) @@ results

\* lines 185-187: `continue` leaves step_results without an entry for the step
ContinueSkipped(step, results) == results

\* lines 183-187: a step with a missing dependency is skipped
SkipStep ==
    /\ Walking
    /\ CurStep.depends_on # <<>>
    /\ MissingDeps(CurStep, step_results) # {}
    /\ skipped' = skipped \cup {CurStep.step_id}
    /\ step_results' = ContinueSkipped(CurStep, step_results)
    /\ stepIdx' = stepIdx + 1
    /\ step_refined_data' = <<>>
    /\ order' = <<>>
    /\ UNCHANGED <<metadata, now, returned, calls, progress_callback, session_calls, previous_data, augmenter, doubles, pc, strategy, all_refined_data, all_search_queries,
                   urls_used, tasks, processed, exc, outcome,
                   genCalls, conversation, turns, planner_in, refiner_call>>

DepsSatisfied ==
    CurStep.depends_on = <<>> \/ MissingDeps(CurStep, step_results) = {}

\* variant that files the accumulated data under a generation step
MarkCompletedWithData(step, results) == (step.step_id :> all_refined_data) @@ results

\* line 255: step_results[step.step_id] = []
MarkCompleted(step, results) == (step.step_id :> <<>>) @@ results

\* lines 247-255: a generation step is marked completed
GenerationStep ==
    /\ Walking
    /\ DepsSatisfied
    /\ CurStep.action = "generation"
    /\ step_results' = MarkCompleted(CurStep, step_results)
    /\ processed' = processed \cup {CurStep.step_id}
    /\ stepIdx' = stepIdx + 1
    /\ step_refined_data' = <<>>
    /\ order' = <<>>
    /\ UNCHANGED <<metadata, now, returned, calls, progress_callback, session_calls, previous_data, augmenter, doubles, pc, strategy, all_refined_data, all_search_queries, urls_used, tasks,
                   skipped, exc, outcome, genCalls,
                   conversation, turns, planner_in, refiner_call>>

\* variant that collects the results of every earlier step
PreviousDataEarlier(step, results) ==
    Flatten([k \in 1..(step.step_id - 1) |->
                IF k \in DOMAIN results THEN results[k] ELSE <<>>])

\* lines 195-199: the stored results of the step's dependencies, in the order
\* depends_on lists them
PreviousData(step, results) ==
    Flatten([k \in DOMAIN step.depends_on |->
                IF step.depends_on[k] \in DOMAIN results
                THEN results[step.depends_on[k]] ELSE <<>>])

\* lines 192-207: a search step with dependencies calls
\* self.context_resolver.refine_queries, which ContextResolver does not define:
\* AttributeError leaves _execute_steps
RefineQueriesStep ==
    /\ Walking
    /\ DepsSatisfied
    /\ CurStep.action = "search"
    /\ CurStep.depends_on # <<>>
    /\ processed' = processed \cup {CurStep.step_id}
    /\ previous_data' = PreviousData(CurStep, step_results)
    /\ exc' = "AttributeError"
    /\ pc' = "except"
    /\ step_refined_data' = <<>>
    /\ order' = <<>>
    /\ UNCHANGED <<metadata, now, returned, calls, progress_callback, session_calls, augmenter, doubles, strategy, stepIdx, step_results, all_refined_data, all_search_queries,
                   urls_used, tasks, skipped, outcome,
                   genCalls, conversation, turns, planner_in, refiner_call>>

\* lines 214 and 276-297: the step's coroutines are created
BeginSearchStep ==
    /\ Walking
    /\ DepsSatisfied
    /\ CurStep.action = "search"
    /\ CurStep.depends_on = <<>>
    /\ tasks' = [i \in DOMAIN DispatchedQueries(CurStep) |->
                    NewTask(DispatchedQueries(CurStep)[i])]
    /\ order' = <<>>
    /\ processed' = processed \cup {CurStep.step_id}
    /\ pc' = "resolve"
    /\ step_refined_data' = <<>>
    /\ UNCHANGED <<metadata, now, returned, calls, progress_callback, session_calls, previous_data, augmenter, doubles, strategy, stepIdx, step_results, all_refined_data, all_search_queries,
                   urls_used, skipped, exc, outcome, genCalls,
                   conversation, turns, planner_in, refiner_call>>

\* one loop iteration of one coroutine of the step
ResolveAttempt(i, s, g) ==
    /\ pc = "resolve"
    /\ i \in DOMAIN tasks
    /\ tasks[i].pc = "run"
    /\ tasks' = [tasks EXCEPT ![i] = Attempt(tasks[i], s, g)]
    /\ order' = IF Finished(tasks'[i]) THEN Append(order, i) ELSE order
    /\ UNCHANGED <<metadata, now, returned, calls, progress_callback, session_calls, previous_data, augmenter, doubles, pc, strategy, stepIdx, step_results, all_refined_data,
                   all_search_queries, urls_used, step_refined_data, processed, skipped,
                   exc, outcome, genCalls, conversation, turns, planner_in, refiner_call>>

\* variant that records a step only when it has a usable result
RecordStepIfAny(step, data, results) ==
    IF StoredResults(data) = <<>> THEN results
    ELSE (step.step_id :> StoredResults(data)) @@ results

\* lines 242-244: step_results[step.step_id] = successful_results
RecordStep(step, data, results) == (step.step_id :> StoredResults(data)) @@ results

\* _execute_search_step returns and lines 222-245 aggregate its list
FinishSearchStep ==
    /\ pc = "resolve"
    /\ \A i \in DOMAIN tasks : Finished(tasks[i])
    /\ LET data == SearchStepData(CurStep, tasks, order) IN
        /\ step_refined_data' = data
        /\ all_search_queries' = all_search_queries \o CurStep.search_queries
        /\ all_refined_data' =
               all_refined_data \o CollectRefined(CurStep.search_queries, data)
        /\ urls_used' = urls_used \o CollectUrls(CurStep.search_queries, data)
        /\ step_results' = RecordStep(CurStep, data, step_results)
    /\ tasks' = <<>>
    /\ stepIdx' = stepIdx + 1
    /\ pc' = "steps"
    /\ UNCHANGED <<metadata, now, returned, calls, progress_callback, session_calls, previous_data, augmenter, doubles, strategy, order, processed, skipped, exc, outcome, genCalls, conversation,
                   turns, planner_in, refiner_call>>

\* variant that takes the walk for over while steps remain
StepsDoneEarly == pc = "steps"

\* line 260: _execute_steps has gone through every step and returns
StepsDone == pc = "steps" /\ stepIdx > Len(Steps)

\* variant that never takes the accumulated list for empty
NothingFoundNever(refined) == FALSE

\* line 109: if not all_refined_data
NothingFound(refined) == refined = <<>>

\* research() lines 109-115: nothing was accumulated
NoResultsExit ==
    /\ StepsDone
    /\ NothingFound(all_refined_data)
    /\ session_calls' =
           session_calls \o _save_turn_to_session(turns, strategy.execution_type).calls
    /\ LET saved == _save_turn_to_session(turns, strategy.execution_type) IN
        IF saved.raised
        THEN /\ exc' = "TypeError"
             /\ pc' = "except"
             /\ UNCHANGED <<outcome, turns>>
        ELSE /\ turns' = saved.turns
             /\ outcome' = _create_no_results_response
             /\ pc' = "returned"
             /\ exc' = exc
    /\ UNCHANGED <<metadata, now, returned, calls, progress_callback, previous_data, augmenter, doubles, strategy, stepIdx, step_results, all_refined_data, all_search_queries,
                   urls_used, tasks, order, step_refined_data, processed, skipped,
                   genCalls, conversation, planner_in, refiner_call>>

\* research() lines 117-139: the answer is generated, saved and returned
GenerateAnswer ==
    /\ StepsDone
    /\ ~NothingFound(all_refined_data)
    /\ genCalls' = genCalls + 1
    /\ conversation' = Append(conversation, "assistant")
    /\ session_calls' =
           session_calls \o <<"save_conversation_message">>
              \o _save_turn_to_session(turns, strategy.execution_type).calls
    /\ \E urls \in ListOfSet(urls_used) :
        LET saved == _save_turn_to_session(turns, strategy.execution_type) IN
        IF saved.raised
        THEN /\ exc' = "TypeError"
             /\ pc' = "except"
             /\ UNCHANGED <<outcome, turns>>
        ELSE /\ turns' = saved.turns
             /\ outcome' = SynthesizedResponse(all_refined_data, urls)
             /\ pc' = "returned"
             /\ exc' = exc
    /\ UNCHANGED <<metadata, now, returned, calls, progress_callback, previous_data, augmenter, doubles, strategy, stepIdx, step_results, all_refined_data, all_search_queries,
                   urls_used, tasks, order, step_refined_data, processed, skipped, planner_in, refiner_call>>

\* research() lines 141-160: the outermost except clause
ExceptHandler ==
    /\ pc = "except"
    /\ session_calls' = session_calls \o _save_turn_to_session(turns, "error").calls
    /\ LET saved == _save_turn_to_session(turns, "error") IN
        IF saved.raised
        THEN /\ pc' = "raised"
             /\ outcome' = [NoOutcome EXCEPT !.kind = "raised", !.exc = "TypeError"]
             /\ exc' = "TypeError"
             /\ turns' = turns
        ELSE /\ pc' = "returned"
             /\ outcome' = ErrorResponse(exc)
             /\ turns' = saved.turns
             /\ exc' = "none"
    /\ UNCHANGED <<metadata, now, returned, calls, progress_callback, previous_data, augmenter, doubles, strategy, stepIdx, step_results, all_refined_data, all_search_queries,
                   urls_used, tasks, order, step_refined_data, processed, skipped,
                   genCalls, conversation, planner_in, refiner_call>>

\* every step of research() other than the resolver iterations
ResearchSteps ==
    \/ StartResearch("none", "none")
    \/ \E o \in PlannerOutcomes : Plan(o)
    \/ SkipStep
    \/ GenerationStep
    \/ RefineQueriesStep
    \/ BeginSearchStep
    \/ FinishSearchStep
    \/ NoResultsExit
    \/ GenerateAnswer
    \/ ExceptHandler

Next ==
    \/ ResearchSteps
    \/ \E i \in 1..(MaxQueries + 1), s \in SearchReturns, g \in RefinerOutcomes :
          ResolveAttempt(i, s, g)

Spec == Init /\ [][Next]_vars

(***************************************************************************)
(* research() against services on which every resolution settles on its   *)
(* first attempt: the search raises or returns substantial documents, and  *)
(* the refiner's judgment is at or above the retry threshold               *)
(***************************************************************************)
SettledSearchReturns ==
    {s \in SearchReturns : s.raised \/ _validate_search_results(s.docs).ok}

SettledRefinerOutcomes ==
    {g \in RefinerOutcomes : g.kind = "ok" /\ g.score >= RetryScore}

NextWalk ==
    \/ ResearchSteps
    \/ \E i \in 1..(MaxQueries + 1), s \in SettledSearchReturns,
          g \in SettledRefinerOutcomes :
          ResolveAttempt(i, s, g)

SpecWalk == Init /\ [][NextWalk]_vars

(***************************************************************************)
(* _execute_search_step called directly on one step, as                   *)
(* testing_scripts/test_execute_search_step.py does                        *)
(***************************************************************************)
DirectSteps == {s \in Shapes(1) : s.action = "search" /\ s.depends_on = <<>>}

InitStep ==
    /\ pc = "steps"
    /\ strategy \in {[execution_type |-> "single", steps |-> <<s>>, confidence |-> 8]
                       : s \in DirectSteps}
    /\ stepIdx = 1
    /\ step_results = <<>>
    /\ all_refined_data = <<>>
    /\ all_search_queries = <<>>
    /\ urls_used = <<>>
    /\ tasks = <<>>
    /\ order = <<>>
    /\ step_refined_data = <<>>
    /\ processed = {}
    /\ skipped = {}
    /\ exc = "none"
    /\ outcome = NoOutcome
    /\ genCalls = 0
    /\ conversation = <<>>
    /\ turns = <<>>
    /\ planner_in = NoPlannerOutcome
    /\ refiner_call = NoRefinerCall
    /\ augmenter = NoAugmenterCall
    /\ progress_callback = "none"
    /\ session_calls = <<>>
    /\ metadata = NoMetadata
    /\ now = 0
    /\ returned = NoReturn
    /\ calls = <<>>
    /\ previous_data = <<>>
    /\ doubles = NoDoubles

NextStep ==
    \/ BeginSearchStep
    \/ \E i \in 1..(MaxQueries + 1), s \in SearchReturns, g \in RefinerOutcomes :
          ResolveAttempt(i, s, g)
    \/ FinishSearchStep

SpecStep == InitStep /\ [][NextStep]_vars

(***************************************************************************)
(* _search_with_refine exercised on one query against every judgment       *)
(***************************************************************************)
\* judgments the refiner's generation service may answer with
RefinerJudgments ==
    RefinerOutcomes
    \cup { [kind |-> "ok", score |-> sc, source_indices |-> ix] :
             sc \in {2, 4, 5, 7, MaxScore, MaxScore + 2}, ix \in {<<1>>, <<0, 1, 5>>} }
    \cup { [kind |-> "malformed", score |-> 0, source_indices |-> <<>>] }

InitResolver ==
    /\ InitStep
    /\ strategy.steps[1].mode = "single"
    /\ Len(strategy.steps[1].search_queries) = 1

NextResolver ==
    \/ BeginSearchStep
    \/ \E s \in SearchReturns, g \in RefinerJudgments : ResolveAttempt(1, s, g)
    \/ FinishSearchStep

SpecResolver == InitResolver /\ [][NextResolver]_vars

(***************************************************************************)
(* Refiner.refine_search_results called directly                           *)
(***************************************************************************)
DocLists == { <<DocA>>, <<DocA, DocB>>, <<DocA, DocB, DocA, DocB>> }

RefineCall(g, results, retry_count) ==
    /\ refiner_call' =
           [called |-> TRUE, g |-> g, nresults |-> Len(results),
            retry_count |-> retry_count,
            out |-> refine_search_results(g, results, retry_count)]
    /\ UNCHANGED <<metadata, now, returned, calls, progress_callback, session_calls, previous_data, augmenter, doubles, pc, strategy, stepIdx, step_results, all_refined_data,
                   all_search_queries, urls_used, tasks, order, step_refined_data,
                   processed, skipped, exc, outcome, genCalls, conversation, turns,
                   planner_in>>

NextRefiner ==
    \E g \in RefinerJudgments, results \in DocLists, retry_count \in 0..(max_retries + 1) :
        RefineCall(g, results, retry_count)

SpecRefiner == Init /\ [][NextRefiner]_vars

(***************************************************************************)
(* ContextResolver.add_context called directly, as                         *)
(* testing_scripts/test_context_resolver.py does                           *)
(***************************************************************************)
\* the steps handed to add_context
AugmenterSteps ==
    DirectSteps
    \cup { Step(MaxSteps, "search", m, <<MaxSteps - 1>>, qs) :
              m \in {"single", "parallel"},
              qs \in { <<Q(MaxSteps, 1)>>, [j \in 1..MaxQueries |-> Q(MaxSteps, j)] } }

\* the values of the max_retries parameter (default 3)
AugmenterBudgets == 1..add_context_max_retries

InitAugmenter ==
    /\ pc = "start"
    /\ strategy = NoPlan
    /\ stepIdx = 1
    /\ step_results = <<>>
    /\ all_refined_data = <<>>
    /\ all_search_queries = <<>>
    /\ urls_used = <<>>
    /\ tasks = <<>>
    /\ order = <<>>
    /\ step_refined_data = <<>>
    /\ processed = {}
    /\ skipped = {}
    /\ exc = "none"
    /\ outcome = NoOutcome
    /\ genCalls = 0
    /\ conversation = <<>>
    /\ turns = <<>>
    /\ planner_in = NoPlannerOutcome
    /\ refiner_call = NoRefinerCall
    /\ augmenter \in { [NoAugmenterCall EXCEPT !.pc = "run", !.current_step = s,
                                               !.max_retries = m] :
                          s \in AugmenterSteps, m \in AugmenterBudgets }
    /\ progress_callback = "none"
    /\ session_calls = <<>>
    /\ metadata = NoMetadata
    /\ now = 0
    /\ returned = NoReturn
    /\ calls = <<>>
    /\ previous_data = <<>>
    /\ doubles = NoDoubles

\* one iteration of the loop of add_context
AugmentAttempt(o) ==
    /\ augmenter.pc = "run"
    /\ augmenter' = add_context(augmenter, o)
    /\ UNCHANGED <<metadata, now, returned, calls, progress_callback, session_calls, previous_data, doubles, pc, strategy, stepIdx, step_results, all_refined_data,
                   all_search_queries, urls_used, tasks, order, step_refined_data,
                   processed, skipped, exc, outcome, genCalls, conversation, turns,
                   planner_in, refiner_call>>

NextAugmenter ==
    \E o \in AugmenterOutcomes(augmenter.current_step) : AugmentAttempt(o)

SpecAugmenter == InitAugmenter /\ [][NextAugmenter]_vars

(***************************************************************************)
(* Runs against scripted doubles of the search provider and the refiner    *)
(***************************************************************************)
RefineAnswer(sc, retry, text, ix) ==
    [score |-> sc, should_retry |-> retry, refined_data |-> text, source_indices |-> ix]

\* what a refiner double may answer on one call
RefineAnswers ==
    { RefineAnswer(3, TRUE, "alpha", <<0>>),
      RefineAnswer(3, FALSE, "alpha", <<0>>),
      RefineAnswer(6, FALSE, "beta", <<0, 1>>),
      RefineAnswer(8, TRUE, "gamma", <<1>>),
      RefineAnswer(8, FALSE, "delta", <<0>>) }

\* a refiner double answers by the retry_count it is called with: script[n]
\* on the n-th attempt, the last entry from then on
RefineDoubleAnswer(script, retry_count) == script[Min(retry_count + 1, Len(script))]

RefineScripts ==
    { <<a>> : a \in RefineAnswers } \cup { <<a, b>> : a, b \in RefineAnswers }

\* one iteration of coroutine i against the doubles; the doubles of a direct
\* invocation are those of the one query
ResolveWithDoubles(i) ==
    /\ pc \in {"resolve", "direct"}
    /\ i \in DOMAIN tasks
    /\ tasks[i].pc = "run"
    /\ LET k == IF pc = "direct" THEN 1 ELSE i IN
        tasks' = [tasks EXCEPT ![i] =
                     _search_with_refine(tasks[i], doubles.search[k],
                         RefineDoubleAnswer(doubles.refine[k], tasks[i].retry_count))]
    /\ order' = IF Finished(tasks'[i]) THEN Append(order, i) ELSE order
    /\ UNCHANGED <<metadata, now, returned, calls, progress_callback, session_calls, previous_data, augmenter, doubles, pc, strategy, stepIdx, step_results,
                   all_refined_data, all_search_queries, urls_used, step_refined_data,
                   processed, skipped, exc, outcome, genCalls, conversation, turns,
                   planner_in, refiner_call>>

\* _search_with_refine invoked Invocations times in a row on the same query
Invocations == 2

InitRerun ==
    /\ pc = "direct"
    /\ strategy = NoPlan
    /\ stepIdx = 1
    /\ step_results = <<>>
    /\ all_refined_data = <<>>
    /\ all_search_queries = <<>>
    /\ urls_used = <<>>
    /\ tasks = <<>>
    /\ order = <<>>
    /\ step_refined_data = <<>>
    /\ processed = {}
    /\ skipped = {}
    /\ exc = "none"
    /\ outcome = NoOutcome
    /\ genCalls = 0
    /\ conversation = <<>>
    /\ turns = <<>>
    /\ planner_in = NoPlannerOutcome
    /\ refiner_call = NoRefinerCall
    /\ augmenter = NoAugmenterCall
    /\ progress_callback = "none"
    /\ session_calls = <<>>
    /\ metadata = NoMetadata
    /\ now = 0
    /\ returned = NoReturn
    /\ calls = <<>>
    /\ previous_data = <<>>
    /\ doubles \in { [search |-> <<s>>, refine |-> <<r>>] :
                       s \in SearchReturns, r \in RefineScripts }

\* the next invocation starts once the previous one has finished
Invoke ==
    /\ pc = "direct"
    /\ Len(tasks) < Invocations
    /\ \A i \in DOMAIN tasks : Finished(tasks[i])
    /\ tasks' = Append(tasks, NewTask(Q(1, 1)))
    /\ UNCHANGED <<metadata, now, returned, calls, progress_callback, session_calls, previous_data, augmenter, doubles, pc, strategy, stepIdx, step_results,
                   all_refined_data, all_search_queries, urls_used, order,
                   step_refined_data, processed, skipped, exc, outcome, genCalls,
                   conversation, turns, planner_in, refiner_call>>

NextRerun ==
    \/ Invoke
    \/ \E i \in 1..Invocations : ResolveWithDoubles(i)

SpecRerun == InitRerun /\ [][NextRerun]_vars

\* _execute_steps on one parallel step of three queries against doubles
FanoutStep ==
    Step(1, "search", "parallel", <<>>, <<Q(1, 1), Q(1, 2), Q(1, 3)>>)

FanoutSearches ==
    { [raised |-> FALSE, docs |-> <<>>], [raised |-> FALSE, docs |-> <<DocA, DocB>>] }

FanoutScripts ==
    { <<RefineAnswer(8, FALSE, "gamma", <<0>>)>>,
      <<RefineAnswer(3, TRUE, "alpha", <<0>>), RefineAnswer(6, FALSE, "beta", <<0, 1>>)>>,
      <<RefineAnswer(3, TRUE, "alpha", <<0>>)>> }

InitFanout ==
    /\ pc = "steps"
    /\ strategy = [execution_type |-> "single", steps |-> <<FanoutStep>>, confidence |-> 8]
    /\ stepIdx = 1
    /\ step_results = <<>>
    /\ all_refined_data = <<>>
    /\ all_search_queries = <<>>
    /\ urls_used = <<>>
    /\ tasks = <<>>
    /\ order = <<>>
    /\ step_refined_data = <<>>
    /\ processed = {}
    /\ skipped = {}
    /\ exc = "none"
    /\ outcome = NoOutcome
    /\ genCalls = 0
    /\ conversation = <<>>
    /\ turns = <<>>
    /\ planner_in = NoPlannerOutcome
    /\ refiner_call = NoRefinerCall
    /\ augmenter = NoAugmenterCall
    /\ progress_callback = "none"
    /\ session_calls = <<>>
    /\ metadata = NoMetadata
    /\ now = 0
    /\ returned = NoReturn
    /\ calls = <<>>
    /\ previous_data = <<>>
    /\ doubles \in { [search |-> s, refine |-> r] :
                       s \in [DOMAIN FanoutStep.search_queries -> FanoutSearches],
                       r \in [DOMAIN FanoutStep.search_queries -> FanoutScripts] }

NextFanout ==
    \/ BeginSearchStep
    \/ \E i \in DOMAIN FanoutStep.search_queries : ResolveWithDoubles(i)
    \/ FinishSearchStep

SpecFanout == InitFanout /\ [][NextFanout]_vars

(***************************************************************************)
(* The result of research() lines 117-131 built from an accumulated list   *)
(***************************************************************************)
\* the "sources" lists an accumulated entry may carry (urls; "" is a source
\* without a url)
SourceLists ==
    { <<>> } \cup { <<u>> : u \in {"A", "B", ""} }
    \cup { <<u, v>> : u, v \in {"A", "B", ""} }

\* accumulated refined-data lists: every entry has score > 0 (lines 232-233)
AccumulatedLists ==
    UNION { { [k \in 1..n |->
                 [refined_data |-> "llm", sources |-> ss[k], query |-> Q(1, k),
                  score |-> RetryScore, error |-> "none"]] : ss \in [1..n -> SourceLists] }
            : n \in 1..MaxQueries }

\* the state in which _execute_steps returns after one parallel step
InitAnswer ==
    /\ pc = "steps"
    /\ strategy = [execution_type |-> "single",
                   steps |-> <<Step(1, "search", "parallel", <<>>,
                                    [j \in 1..MaxQueries |-> Q(1, j)])>>,
                   confidence |-> 8]
    /\ stepIdx = 2
    /\ all_refined_data \in AccumulatedLists
    /\ step_results = (1 :> all_refined_data)
    /\ urls_used = Flatten([k \in DOMAIN all_refined_data |-> all_refined_data[k].sources])
    /\ all_search_queries = strategy.steps[1].search_queries
    /\ tasks = <<>>
    /\ order = <<>>
    /\ step_refined_data = <<>>
    /\ processed = {1}
    /\ skipped = {}
    /\ exc = "none"
    /\ outcome = NoOutcome
    /\ genCalls = 0
    /\ conversation = <<>>
    /\ turns = <<>>
    /\ planner_in = NoPlannerOutcome
    /\ refiner_call = NoRefinerCall
    /\ augmenter = NoAugmenterCall
    /\ progress_callback = "none"
    /\ session_calls = <<>>
    /\ metadata = NoMetadata
    /\ now = 0
    /\ returned = NoReturn
    /\ calls = <<>>
    /\ previous_data = <<>>
    /\ doubles = NoDoubles

\* lines 117-131: generate_answer returns and the ResearchResult is built
BuildResult ==
    /\ StepsDone
    /\ all_refined_data # <<>>
    /\ genCalls' = genCalls + 1
    /\ conversation' = Append(conversation, "assistant")
    /\ session_calls' = session_calls \o <<"save_conversation_message">>
    /\ \E urls \in ListOfSet(urls_used) :
           outcome' = [SynthesizedResponse(all_refined_data, urls) EXCEPT !.kind = "built"]
    /\ pc' = "built"
    /\ UNCHANGED <<metadata, now, returned, calls, progress_callback, previous_data, augmenter, doubles, strategy, stepIdx, step_results,
                   all_refined_data, all_search_queries, urls_used, tasks, order,
                   step_refined_data, processed, skipped, exc, turns, planner_in,
                   refiner_call>>

NextAnswer == BuildResult

SpecAnswer == InitAnswer /\ [][NextAnswer]_vars

(***************************************************************************)
(* research() against a search that returns usable documents and a        *)
(* refiner that rates them at the top or finds nothing in them, so that    *)
(* whole steps end without a usable result                                 *)
(***************************************************************************)
BarrenSearchReturns ==
    { [raised |-> FALSE, docs |-> <<DocA, ThinDoc, DocB>>] }

BarrenRefinerOutcomes ==
    { [kind |-> "ok", score |-> 0, source_indices |-> <<1>>],
      [kind |-> "ok", score |-> 8, source_indices |-> <<0, 2>>] }

NextBarren ==
    \/ ResearchSteps
    \/ \E i \in 1..(MaxQueries + 1), s \in BarrenSearchReturns,
          g \in BarrenRefinerOutcomes :
          ResolveAttempt(i, s, g)

SpecBarren == Init /\ [][NextBarren]_vars

(***************************************************************************)
(* _execute_steps walking a chain whose last step is a search step that    *)
(* declares some of the earlier search steps as its dependencies           *)
(***************************************************************************)
\* the depends_on lists of the last step: one or two distinct earlier steps
ContextDependencies ==
    { <<a>> : a \in 1..MaxSteps }
    \cup { d \in (1..MaxSteps) \X (1..MaxSteps) : d[1] # d[2] }

ContextPlans ==
    { [execution_type |-> "chain",
       steps |-> [k \in 1..(MaxSteps + 1) |->
                    IF k = MaxSteps + 1
                    THEN Step(k, "search", "single", deps, <<Q(k, 1)>>)
                    ELSE IF k % 2 = 1
                         THEN Step(k, "search", "single", <<>>, <<Q(k, 1)>>)
                         ELSE Step(k, "search", "parallel", <<>>,
                                   [j \in 1..MaxQueries |-> Q(k, j)])],
       confidence |-> 8] : deps \in ContextDependencies }

InitContext ==
    /\ pc = "steps"
    /\ strategy \in ContextPlans
    /\ stepIdx = 1
    /\ step_results = <<>>
    /\ all_refined_data = <<>>
    /\ all_search_queries = <<>>
    /\ urls_used = <<>>
    /\ tasks = <<>>
    /\ order = <<>>
    /\ step_refined_data = <<>>
    /\ processed = {}
    /\ skipped = {}
    /\ exc = "none"
    /\ outcome = NoOutcome
    /\ genCalls = 0
    /\ conversation = <<>>
    /\ turns = <<>>
    /\ planner_in = NoPlannerOutcome
    /\ refiner_call = NoRefinerCall
    /\ augmenter = NoAugmenterCall
    /\ progress_callback = "none"
    /\ session_calls = <<>>
    /\ metadata = NoMetadata
    /\ now = 0
    /\ returned = NoReturn
    /\ calls = <<>>
    /\ previous_data = <<>>
    /\ doubles = NoDoubles

NextContext ==
    \/ BeginSearchStep
    \/ \E i \in 1..(MaxQueries + 1), s \in BarrenSearchReturns,
          g \in BarrenRefinerOutcomes :
          ResolveAttempt(i, s, g)
    \/ FinishSearchStep
    \/ RefineQueriesStep

SpecContext == InitContext /\ [][NextContext]_vars

(***************************************************************************)
(* research() called with and without a session id and a conversation      *)
(* history, resolutions settling on the first attempt                      *)
(***************************************************************************)
SessionIds == {"none", "active", "inactive"}

ConversationHistories == {"none", "given"}

NextSession ==
    \/ \E session_id \in SessionIds, conversation_history \in ConversationHistories :
          StartResearch(session_id, conversation_history)
    \/ \E o \in PlannerOutcomes : Plan(o)
    \/ SkipStep
    \/ GenerationStep
    \/ RefineQueriesStep
    \/ BeginSearchStep
    \/ FinishSearchStep
    \/ NoResultsExit
    \/ GenerateAnswer
    \/ ExceptHandler
    \/ \E i \in 1..(MaxQueries + 1), s \in SettledSearchReturns,
          g \in SettledRefinerOutcomes :
          ResolveAttempt(i, s, g)

SpecSession == Init /\ [][NextSession]_vars

(***************************************************************************)
(* research() called without a progress callback, with one that returns    *)
(* and with one that raises, resolutions settling on the first attempt     *)
(***************************************************************************)
ProgressCallbacks == {"none", "returns", "raises"}

InitProgress ==
    /\ pc = "start"
    /\ strategy = NoPlan
    /\ stepIdx = 1
    /\ step_results = <<>>
    /\ all_refined_data = <<>>
    /\ all_search_queries = <<>>
    /\ urls_used = <<>>
    /\ tasks = <<>>
    /\ order = <<>>
    /\ step_refined_data = <<>>
    /\ processed = {}
    /\ skipped = {}
    /\ exc = "none"
    /\ outcome = NoOutcome
    /\ genCalls = 0
    /\ conversation = <<>>
    /\ turns = <<>>
    /\ planner_in = NoPlannerOutcome
    /\ refiner_call = NoRefinerCall
    /\ augmenter = NoAugmenterCall
    /\ previous_data = <<>>
    /\ session_calls = <<>>
    /\ metadata = NoMetadata
    /\ now = 0
    /\ returned = NoReturn
    /\ calls = <<>>
    /\ progress_callback \in ProgressCallbacks
    /\ doubles = NoDoubles

SpecProgress == InitProgress /\ [][NextWalk]_vars

(***************************************************************************)
(* research() with every external call eventually returning or raising:    *)
(* a step of the call that can be taken is eventually taken                *)
(***************************************************************************)
SpecLive == Init /\ [][NextWalk]_vars /\ WF_vars(NextWalk)

(***************************************************************************)
(* Properties                                                              *)
(***************************************************************************)
DepsRecorded(step) ==
    \A k \in DOMAIN step.depends_on : step.depends_on[k] \in DOMAIN step_results

\* C1: a step is processed (augmented, dispatched or marked) only when every
\* id of its depends_on is already in step_results; a step with a dependency
\* absent from step_results is skipped: nothing is dispatched, recorded or
\* accumulated for it, no exception arises, and the walk moves on to the next
\* step of the plan.
C1_DependenciesGateProcessing ==
    [][ Walking =>
          /\ (processed' # processed => DepsRecorded(CurStep))
          /\ (~DepsRecorded(CurStep) =>
                /\ skipped' = skipped \cup {CurStep.step_id}
                /\ processed' = processed
                /\ step_results' = step_results
                /\ tasks' = tasks
                /\ all_refined_data' = all_refined_data
                /\ all_search_queries' = all_search_queries
                /\ urls_used' = urls_used
                /\ exc' = "none"
                /\ pc' = "steps"
                /\ stepIdx' = stepIdx + 1) ]_vars

\* a step was skipped for a missing dependency and a later step was processed
C1_Witness ==
    /\ exc = "none"
    /\ \E s \in skipped : \E q \in processed : q > s /\ q \in DOMAIN step_results

FanoutReturns == pc = "resolve" /\ pc' # "resolve" /\ CurStep.mode = "parallel"

\* C2: when a parallel step returns, its result list has one entry per query
\* and entry i belongs to query i and is what the resolution of query i
\* returned, whatever the completion order and whichever resolutions failed.
C2_FanoutKeepsQueryOrder ==
    [][ FanoutReturns =>
          /\ Len(step_refined_data') = Len(CurStep.search_queries)
          /\ \A i \in DOMAIN CurStep.search_queries :
                /\ step_refined_data'[i].query = CurStep.search_queries[i]
                /\ tasks[i].pc = "done" => step_refined_data'[i] = tasks[i].result ]_vars

\* a fan-out returned after its last query completed first, one query failed
C2_Witness ==
    /\ pc = "steps" /\ stepIdx = 2
    /\ Steps[1].mode = "parallel"
    /\ Len(step_refined_data) = MaxQueries
    /\ order # <<>> /\ order[1] = MaxQueries
    /\ \E i \in DOMAIN step_refined_data : step_refined_data[i].score = 0
    /\ \E j \in DOMAIN step_refined_data : step_refined_data[j].score > 0

\* C3: in a parallel step an exception of one resolution is not re-raised and
\* does not end the step early: the step returns only when every resolution
\* has finished, the failed query's slot is a score 0 result whose error is
\* the exception's description, and every sibling's slot is exactly the
\* result that sibling returned.
C3_FanoutIsolatesExceptions ==
    [][ FanoutReturns =>
          /\ \A i \in DOMAIN tasks : Finished(tasks[i])
          /\ pc' = "steps" /\ exc' = "none"
          /\ \A i \in DOMAIN tasks :
                /\ tasks[i].pc = "raised" =>
                      /\ i \in DOMAIN step_refined_data'
                      /\ step_refined_data'[i].score = 0
                      /\ step_refined_data'[i].error = tasks[i].err
                      /\ step_refined_data'[i].sources = <<>>
                /\ tasks[i].pc = "done" =>
                      /\ i \in DOMAIN step_refined_data'
                      /\ step_refined_data'[i] = tasks[i].result ]_vars

\* a fan-out returned with one slot holding an exception and a sibling a result
C3_Witness ==
    /\ pc = "steps" /\ stepIdx = 2
    /\ Steps[1].mode = "parallel"
    /\ \E i, j \in DOMAIN step_refined_data :
          /\ i # j
          /\ step_refined_data[i].error \in {"SearchError", "IndexError"}
          /\ step_refined_data[j].score > 0

\* C4: the single-query resolver never raises, whatever the search service
\* and the refiner do.
C4_ResolverNeverRaises ==
    \A i \in DOMAIN tasks : tasks[i].pc # "raised"

LastStep == Steps[stepIdx - 1]

\* the step just walked was a dispatched search step
SearchStepJustFinished ==
    /\ pc = "steps"
    /\ stepIdx > 1
    /\ LastStep.action = "search"
    /\ LastStep.depends_on = <<>>

ZeroScoreExcluded ==
    /\ \A k \in DOMAIN all_refined_data : all_refined_data[k].score > 0
    /\ \A i \in DOMAIN step_refined_data :
          step_refined_data[i].score = 0 =>
              \A k \in DOMAIN all_refined_data :
                  all_refined_data[k].query # step_refined_data[i].query
    /\ urls_used = Flatten([k \in DOMAIN all_refined_data |-> all_refined_data[k].sources])

Ended == pc \in {"returned", "raised"}

\* C6: when every dispatched query resolved to a score 0 result, research()
\* returns the canned no-information answer with no citations and
\* generate_answer was never invoked.
C6_CannedAnswerWhenNothingFound ==
    (Ended /\ stepIdx > Len(Steps) /\ step_refined_data # <<>> /\ all_refined_data = <<>>)
        => /\ pc = "returned"
           /\ outcome.answer = "no_results"
           /\ outcome.citations = <<>>
           /\ genCalls = 0

PlannerFailed ==
    \/ planner_in.kind \in {"raise", "malformed"}
    \/ planner_in.kind = "json" /\ ~ResearchStrategyValid(planner_in.plan[1])

\* C7: whenever the planner's generation raises or its output does not parse
\* or validate, the plan is the single-step fallback: execution_type single,
\* one step (id 1, search, single, no dependencies, the user query as its only
\* query), confidence 0.5; planning itself leaves no exception behind.
C7_PlannerFallback ==
    (pc \notin {"start", "plan"} /\ PlannerFailed) =>
        /\ strategy =
              [execution_type |-> "single",
               steps |-> << [step_id |-> 1, action |-> "search", mode |-> "single",
                             depends_on |-> <<>>, search_queries |-> <<UserQuery>>] >>,
               confidence |-> 5]
        /\ (stepIdx = 1 /\ pc = "steps" => exc = "none")

\* the generation answered with malformed JSON and the fallback plan is walked
C7_Witness ==
    /\ planner_in.kind = "malformed"
    /\ pc = "resolve"
    /\ strategy.confidence = 5
    /\ Len(strategy.steps) = 1

\* C8: no exception escapes research(): the call always ends by returning,
\* and an error answer has confidence low with an "error" turn recorded.
C8_NoExceptionEscapes ==
    /\ pc # "raised"
    /\ (pc = "returned" /\ outcome.answer = "error") =>
          /\ outcome.confidence = "low"
          /\ turns # <<>>
          /\ turns[Len(turns)].strategy = "error"

\* C9: one resolver invocation makes at most max_retries + 1 = 4 attempts:
\* at most 4 search calls, and the attempt counter never exceeds 4.
C9_AtMostFourAttempts ==
    /\ max_retries + 1 = 4
    /\ \A i \in DOMAIN tasks :
          /\ tasks[i].searches <= 4
          /\ tasks[i].retry_count <= 4

\* a resolver that used all four attempts
C9_Witness ==
    \E i \in DOMAIN tasks :
        tasks[i].pc = "done" /\ tasks[i].searches = 4 /\ tasks[i].retry_count = 4

\* C10: for a well-formed judgment with score s at attempt a,
\* refine_search_results returns should_retry = (s < 0.5 and a < 1), 1 being
\* the default max_retries of the refiner.
C10_ShouldRetry ==
    /\ refiner_max_retries = 1
    /\ (refiner_call.called /\ refiner_call.g.kind = "ok"
            /\ refiner_call.g.score \in 0..10) =>
          /\ refiner_call.out.score = refiner_call.g.score
          /\ refiner_call.out.should_retry =
                (refiner_call.g.score < 5 /\ refiner_call.retry_count < 1)

\* a low judgment on the first attempt asked for a retry
C10_Witness ==
    /\ refiner_call.called
    /\ refiner_call.g.kind = "ok"
    /\ refiner_call.g.score = 4
    /\ refiner_call.retry_count = 0
    /\ refiner_call.out.should_retry

\* C11: when the refiner's generation raises or answers with output that does
\* not parse or validate, refine_search_results at attempt a returns the basic
\* extraction with score exactly 0.5 and should_retry = (a < 1).
C11_FailureFallbackNeutral ==
    (refiner_call.called /\ refiner_call.g.kind \in {"raise", "malformed"}) =>
        /\ refiner_call.out.refined_data = "basic"
        /\ refiner_call.out.score = 5
        /\ refiner_call.out.should_retry = (refiner_call.retry_count < 1)

AugmenterParsed(o) ==
    /\ o.kind = "text"
    /\ o.wrap # "prose"
    /\ o.body.kind = "json"
    /\ o.body.step.action \in {"search", "generation"}
    /\ o.body.step.mode \in {"single", "parallel"}

\* C12: add_context calls the generation service at most max_retries times
\* (3 by default), always with the same prompt; it does not raise; it returns
\* the first response that parses and validates as an ExecutionStep, and when
\* every attempt failed it returns the original step.
C12_AugmenterBoundedFallback ==
    /\ add_context_max_retries = 3
    /\ augmenter.pc \in {"idle", "run", "done"}
    /\ Len(augmenter.sent) <= augmenter.max_retries
    /\ \A i \in DOMAIN augmenter.sent : augmenter.sent[i] = augmenter.sent[1]
    /\ augmenter.pc = "run" =>
          /\ Len(augmenter.sent) = augmenter.retry_count
          /\ augmenter.sent # <<>> => ~AugmenterParsed(augmenter.response)
    /\ augmenter.pc = "done" =>
          IF AugmenterParsed(augmenter.response)
          THEN /\ augmenter.result = augmenter.response.body.step
               /\ Len(augmenter.sent) = augmenter.retry_count + 1
          ELSE /\ augmenter.result = augmenter.current_step
               /\ Len(augmenter.sent) = augmenter.max_retries
               /\ augmenter.retry_count = augmenter.max_retries

\* every attempt of the default budget failed and the original step came back
C12_Witness ==
    /\ augmenter.pc = "done"
    /\ augmenter.max_retries = 3
    /\ Len(augmenter.sent) = 3
    /\ ~AugmenterParsed(augmenter.response)
    /\ augmenter.result = augmenter.current_step
    /\ augmenter.current_step.depends_on # <<>>

\* C13: the step add_context returns has the step_id, action, mode and
\* depends_on of the input step; a generated replacement with another step_id
\* is never returned.
C13_AugmenterKeepsFrame ==
    augmenter.pc = "done" =>
        /\ augmenter.result.step_id = augmenter.current_step.step_id
        /\ augmenter.result.action = augmenter.current_step.action
        /\ augmenter.result.mode = augmenter.current_step.mode
        /\ augmenter.result.depends_on = augmenter.current_step.depends_on

\* C14: when the walk reaches a search step whose depends_on is non-empty and
\* fully recorded, the step's queries are dispatched to the resolver: the
\* augmentation phase leaves no exception behind and does not end the walk.
C14_AugmentationNeverAborts ==
    [][ (Walking /\ CurStep.action = "search" /\ CurStep.depends_on # <<>>
            /\ DepsRecorded(CurStep)) =>
          /\ exc' = "none"
          /\ pc' = "resolve"
          /\ Len(tasks') >= 1 ]_vars

FanoutScenario ==
    /\ strategy.steps = <<FanoutStep>>
    /\ doubles.search[1].docs # <<>> /\ doubles.search[3].docs # <<>>
    /\ doubles.search[2].docs = <<>>
    /\ doubles.refine[1] = <<RefineAnswer(8, FALSE, "gamma", <<0>>)>>
    /\ doubles.refine[3] = <<RefineAnswer(3, TRUE, "alpha", <<0>>),
                             RefineAnswer(6, FALSE, "beta", <<0, 1>>)>>

\* C16: in that scenario the resolution of query 3 returns after exactly 2
\* attempts; the list the step returns has length 3, its entry for query 2 has
\* score 0.0 and its entry for query 3 score 0.6; the accumulated list has
\* exactly 2 entries.
C16_FanoutScenario ==
    FanoutScenario =>
        /\ (pc = "resolve" /\ Finished(tasks[3])) =>
              /\ tasks[3].pc = "done"
              /\ tasks[3].searches = 2 /\ tasks[3].refines = 2
              /\ tasks[3].result.score = 6
        /\ SearchStepJustFinished =>
              /\ Len(step_refined_data) = 3
              /\ step_refined_data[1].score = 8
              /\ step_refined_data[2].score = 0
              /\ step_refined_data[3].score = 6
              /\ Len(all_refined_data) = 2
              /\ all_refined_data[1].query = Q(1, 1)
              /\ all_refined_data[2].query = Q(1, 3)

\* the scenario's step has finished
C16_Witness ==
    /\ FanoutScenario
    /\ SearchStepJustFinished
    /\ Len(all_refined_data) = 2
    /\ step_refined_data[2].error = "all_attempts_failed"

\* C17: in the result built from the accumulated list no two citations share
\* a url, every citation's url is the url of a source of some accumulated
\* entry, every non-empty source url is the url of exactly one citation, and
\* the result's urls_used list holds no url twice.
C17_CitationsDeduplicated ==
    outcome.kind = "built" =>
        /\ \A i, j \in DOMAIN outcome.citations :
              outcome.citations[i] = outcome.citations[j] => i = j
        /\ \A i \in DOMAIN outcome.citations :
              \E k \in DOMAIN all_refined_data :
                  \E n \in DOMAIN all_refined_data[k].sources :
                      all_refined_data[k].sources[n] = outcome.citations[i]
        /\ \A k \in DOMAIN all_refined_data :
              \A n \in DOMAIN all_refined_data[k].sources :
                  all_refined_data[k].sources[n] # "" =>
                      Cardinality({i \in DOMAIN outcome.citations :
                          outcome.citations[i] = all_refined_data[k].sources[n]}) = 1
        /\ \A i, j \in DOMAIN outcome.urls : outcome.urls[i] = outcome.urls[j] => i = j

\* a result built from two entries that share a url, one source without url
C17_Witness ==
    /\ outcome.kind = "built"
    /\ \E k, m \in DOMAIN all_refined_data :
          /\ k # m
          /\ \E n \in DOMAIN all_refined_data[k].sources :
                \E l \in DOMAIN all_refined_data[m].sources :
                    /\ all_refined_data[k].sources[n] = all_refined_data[m].sources[l]
                    /\ all_refined_data[k].sources[n] # ""
    /\ \E i \in DOMAIN urls_used : urls_used[i] = ""
    /\ Len(outcome.citations) = 2
    /\ Len(outcome.urls) = 3

Planned == pc \notin {"start", "plan", "direct"} /\ planner_in.kind # "none"

\* C18: in every plan the planner returns, each step's depends_on holds only
\* ids of steps that stand earlier in the plan's step list.
C18_DependsOnEarlierSteps ==
    Planned =>
        \A k \in DOMAIN strategy.steps :
            \A d \in DOMAIN strategy.steps[k].depends_on :
                \E j \in 1..(k - 1) :
                    strategy.steps[j].step_id = strategy.steps[k].depends_on[d]

GeneratedOutOfSchema(p) ==
    \/ Len(p.steps) = 0
    \/ \E k \in DOMAIN p.steps : p.steps[k].action \notin {"search", "generation"}
    \/ \E k \in DOMAIN p.steps : p.steps[k].mode \notin {"single", "parallel"}
    \/ p.execution_type \notin {"single", "chain"}
    \/ p.confidence < 0
    \/ p.confidence > 10

\* C19: every plan the planner returns has at least one step, actions in
\* {search, generation}, modes in {single, parallel}, execution_type in
\* {single, chain} and confidence in [0, 1]; generated output outside this
\* schema is not returned, the fallback plan is.
C19_PlanWithinSchema ==
    Planned =>
        /\ ~GeneratedOutOfSchema(strategy)
        /\ (planner_in.kind = "json" /\ GeneratedOutOfSchema(planner_in.plan[1])) =>
              /\ strategy # planner_in.plan[1]
              /\ strategy.execution_type = "single"
              /\ Len(strategy.steps) = 1
              /\ strategy.steps[1].search_queries = <<UserQuery>>
              /\ strategy.confidence = 5

\* a generated plan with an unknown mode, an unknown execution_type or a
\* negative confidence was answered with the fallback plan, which is walked
C19_Witness ==
    /\ Planned
    /\ planner_in.kind = "json"
    /\ \/ planner_in.plan[1].steps # <<>> /\ planner_in.plan[1].steps[1].mode = "serial"
       \/ planner_in.plan[1].execution_type = "graph"
       \/ planner_in.plan[1].confidence < 0
    /\ strategy.steps[1].search_queries = <<UserQuery>>
    /\ pc = "resolve"

\* what the refiner double answers coroutine i's next call with
AnswerNoRetry(i) ==
    doubles.refine[1][IF tasks[i].retry_count + 1 < Len(doubles.refine[1])
                      THEN tasks[i].retry_count + 1
                      ELSE Len(doubles.refine[1])]

\* the search double returns substantial content and the refiner double's
\* next answer does not ask for a retry
AnswersNoRetry(i) ==
    /\ ~doubles.search[1].raised
    /\ \E n \in DOMAIN doubles.search[1].docs : doubles.search[1].docs[n].clen > 50
    /\ ~AnswerNoRetry(i).should_retry

\* C20: on the attempt on which the refiner answers should_retry = false the
\* resolver returns that attempt's result (its text and score), even when an
\* earlier attempt scored higher, and makes no search or refiner call after.
C20_EarlyExitReturnsCurrent ==
    [][ \A i \in DOMAIN tasks :
          /\ (tasks[i].pc = "run" /\ tasks'[i] # tasks[i] /\ AnswersNoRetry(i)) =>
                /\ tasks'[i].pc = "done"
                /\ tasks'[i].result.score = AnswerNoRetry(i).score
                /\ tasks'[i].result.refined_data = AnswerNoRetry(i).refined_data
                /\ tasks'[i].searches = tasks[i].searches + 1
                /\ tasks'[i].refines = tasks[i].refines + 1
          /\ tasks[i].pc = "done" => tasks'[i] = tasks[i] ]_vars

\* a resolver returned a result scoring lower than its first attempt's
C20_Witness ==
    \E i \in DOMAIN tasks :
        /\ tasks[i].pc = "done"
        /\ tasks[i].searches = 2 /\ tasks[i].refines = 2
        /\ tasks[i].result.score < tasks[i].best_result.score
        /\ tasks[i].result.score > 0

\* C21: a resolver that leaves its loop by exhaustion (attempt counter past
\* max_retries) returns the tracked best_result when at least one attempt
\* reached the refiner, and otherwise the failure result (score 0.0, no
\* sources, an error description); a resolver returns the failure result iff
\* every one of its attempts failed search validation.
C21_ExhaustionReturnsBestOrSentinel ==
    \A i \in DOMAIN tasks :
        tasks[i].pc = "done" =>
            /\ (tasks[i].retry_count > 3 /\ tasks[i].refines > 0) =>
                  /\ tasks[i].best_result.score >= 0
                  /\ tasks[i].result = tasks[i].best_result
                  /\ tasks[i].result.error = "none"
            /\ (tasks[i].retry_count > 3 /\ tasks[i].refines = 0) =>
                  /\ tasks[i].result.score = 0
                  /\ tasks[i].result.sources = <<>>
                  /\ tasks[i].result.error = "all_attempts_failed"
                  /\ tasks[i].result.query = tasks[i].query
            /\ (tasks[i].result.error = "all_attempts_failed") <=>
                  (tasks[i].refines = 0 /\ tasks[i].searches = 4)

\* a resolver whose first attempt was refined and asked for a retry, and whose
\* other attempts found nothing, returned the first attempt's result
C21_Witness ==
    \E i \in DOMAIN tasks :
        /\ tasks[i].pc = "done"
        /\ tasks[i].retry_count = 4
        /\ tasks[i].searches = 4
        /\ tasks[i].refines = 1
        /\ tasks[i].result.score > 0
        /\ tasks[i].result = tasks[i].best_result

\* the answer the scripted refiner gave on the n-th refined attempt
ScriptedAnswer(n) ==
    doubles.refine[1][IF n < Len(doubles.refine[1]) THEN n ELSE Len(doubles.refine[1])]

\* the first refined attempt of coroutine i that reached score sc
FirstAttemptScoring(i, sc) ==
    CHOOSE n \in 1..tasks[i].refines :
        /\ ScriptedAnswer(n).score = sc
        /\ \A m \in 1..(n - 1) : ScriptedAnswer(m).score # sc

\* C22: best_result is null as long as no attempt has reached the refiner;
\* afterwards its score is the maximum score over the refined attempts so far
\* and it is the result of the earliest attempt that reached that score.
C22_BestIsEarliestMaximum ==
    \A i \in DOMAIN tasks :
        /\ tasks[i].refines = 0 => tasks[i].best_result.refined_data = "null"
        /\ tasks[i].refines > 0 =>
              /\ \E n \in 1..tasks[i].refines :
                    ScriptedAnswer(n).score = tasks[i].best_result.score
              /\ \A n \in 1..tasks[i].refines :
                    ScriptedAnswer(n).score <= tasks[i].best_result.score
              /\ tasks[i].best_result.refined_data =
                    ScriptedAnswer(FirstAttemptScoring(i, tasks[i].best_result.score))
                        .refined_data

\* two refined attempts tied at the top score and the first one is kept
C22_Witness ==
    \E i \in DOMAIN tasks :
        /\ tasks[i].refines = 2
        /\ ScriptedAnswer(1).score = ScriptedAnswer(2).score
        /\ ScriptedAnswer(1).refined_data # ScriptedAnswer(2).refined_data
        /\ tasks[i].best_result.refined_data = ScriptedAnswer(1).refined_data

\* the search double returns no document with more than 50 characters
NothingSubstantial ==
    /\ ~doubles.search[1].raised
    /\ \A n \in DOMAIN doubles.search[1].docs : doubles.search[1].docs[n].clen <= 50

\* C23: an attempt whose search returns no document, or none with more than
\* 50 characters of content, does not call the refiner, adds one to the
\* attempt counter and goes on with the loop while attempts remain; the
\* refiner only ever receives a non-empty list of documents that each have
\* more than 50 characters of content.
C23_RefinerSeesSubstantialOnly ==
    /\ [][ \A i \in DOMAIN tasks :
             (tasks[i].pc = "run" /\ tasks'[i] # tasks[i] /\ NothingSubstantial) =>
                 /\ tasks'[i].refines = tasks[i].refines
                 /\ tasks'[i].refiner_input = tasks[i].refiner_input
                 /\ tasks'[i].best_result = tasks[i].best_result
                 /\ tasks'[i].searches = tasks[i].searches + 1
                 /\ tasks'[i].retry_count = tasks[i].retry_count + 1
                 /\ tasks[i].retry_count < 3 => tasks'[i].pc = "run" ]_vars
    /\ [](\A i \in DOMAIN tasks :
             /\ tasks[i].refines = 0 => tasks[i].refiner_input = <<>>
             /\ tasks[i].refines > 0 =>
                   /\ tasks[i].refiner_input # <<>>
                   /\ \A n \in DOMAIN tasks[i].refiner_input :
                         tasks[i].refiner_input[n].clen > 50)

\* a second invocation is on its third attempt after two searches that
\* returned only a document of exactly 50 characters; the first invocation
\* gave up without a refiner call
C23_Witness ==
    /\ Len(tasks) = 2
    /\ doubles.search[1].docs # <<>>
    /\ NothingSubstantial
    /\ tasks[1].pc = "done" /\ tasks[1].searches = 4 /\ tasks[1].refines = 0
    /\ tasks[2].pc = "run" /\ tasks[2].searches = 2 /\ tasks[2].retry_count = 2
    /\ tasks[2].refines = 0

\* C24: processing a generation step whose dependencies are recorded starts
\* no resolver, refiner or augmenter call, leaves the accumulated list, the
\* recorded queries and the urls as they are and stores an empty list under
\* the step's id, so that the step counts as done for the steps after it.
C24_GenerationStepFrame ==
    [][ (Walking /\ CurStep.action = "generation" /\ DepsRecorded(CurStep)) =>
          /\ tasks' = tasks /\ tasks = <<>>
          /\ refiner_call' = refiner_call
          /\ augmenter' = augmenter
          /\ all_refined_data' = all_refined_data
          /\ all_search_queries' = all_search_queries
          /\ urls_used' = urls_used
          /\ CurStep.step_id \in DOMAIN step_results'
          /\ step_results'[CurStep.step_id] = <<>>
          /\ \A k \in DOMAIN step_results : step_results'[k] = step_results[k]
          /\ exc' = "none"
          /\ pc' = "steps" /\ stepIdx' = stepIdx + 1 ]_vars

\* a generation step that depended on a search step with results was marked
\* done and the walk is past it
C24_Witness ==
    /\ pc = "steps" /\ stepIdx = 3
    /\ Len(Steps) = 2
    /\ Steps[2].action = "generation"
    /\ Steps[2].depends_on = <<1>>
    /\ DOMAIN step_results = {1, 2}
    /\ step_results[2] = <<>>
    /\ step_results[1] # <<>>
    /\ all_refined_data # <<>>

\* C25: at most one step runs at a time.  The running resolutions are those
\* of the current step's queries, more than one only in a parallel step; the
\* walk moves to another step, and step_results is written, only when every
\* resolution of the current step has completed; new resolutions and the
\* augmentation of a step start only when no resolution exists.
C25_StepsRunOneAtATime ==
    /\ [](tasks # <<>> =>
             /\ pc = "resolve"
             /\ stepIdx \in DOMAIN strategy.steps
             /\ Len(tasks) <= Len(strategy.steps[stepIdx].search_queries)
             /\ \A i \in DOMAIN tasks :
                   tasks[i].query = strategy.steps[stepIdx].search_queries[i]
             /\ Len(tasks) > 1 => strategy.steps[stepIdx].mode = "parallel")
    /\ [][ /\ stepIdx' # stepIdx =>
                \A i \in DOMAIN tasks : tasks[i].pc \in {"done", "raised"}
           /\ step_results' # step_results =>
                /\ \A i \in DOMAIN tasks : tasks[i].pc \in {"done", "raised"}
                /\ tasks' = <<>>
                /\ stepIdx' = stepIdx + 1
                /\ pc' = "steps"
           /\ (tasks = <<>> /\ tasks' # <<>>) => (pc = "steps" /\ stepIdx' = stepIdx)
           /\ (tasks # <<>> /\ tasks' # <<>>) => Len(tasks') = Len(tasks)
           /\ (exc' = "AttributeError" /\ exc = "none") => tasks = <<>> ]_vars

\* the second step of a plan fans out: one of its resolutions has completed,
\* another is still running, and only the first step is in step_results
C25_Witness ==
    /\ pc = "resolve" /\ stepIdx = 2
    /\ DOMAIN step_results = {1}
    /\ step_results[1] # <<>>
    /\ Len(tasks) >= 2
    /\ \E i, j \in DOMAIN tasks : tasks[i].pc = "done" /\ tasks[j].pc = "run"

\* the results of the resolutions that returned a score above 0, in dispatch order
PositiveResults(ts) ==
    LET kept == SelectSeq(ts, LAMBDA t : t.pc = "done" /\ t.result.score > 0)
    IN  [i \in DOMAIN kept |-> kept[i].result]

BarrenStepReturns ==
    /\ pc = "resolve" /\ pc' # "resolve"
    /\ tasks # <<>>
    /\ \A i \in DOMAIN tasks : tasks[i].pc = "done" /\ tasks[i].result.score = 0

\* C27: a search step whose resolutions all returned score 0 is recorded in
\* step_results (with an empty list) and the walk goes on to the next step
\* without exception; a step whose dependencies are all in step_results, such
\* a step included, is processed and not skipped; and the walk is never left
\* before the last step except by the augmentation of a dependent search step.
C27_BarrenStepIsDone ==
    /\ [][ /\ BarrenStepReturns =>
                /\ strategy.steps[stepIdx].step_id \in DOMAIN step_results'
                /\ step_results'[strategy.steps[stepIdx].step_id] = <<>>
                /\ pc' = "steps"
                /\ exc' = "none"
                /\ stepIdx' = stepIdx + 1
           /\ (Walking /\ DepsRecorded(strategy.steps[stepIdx])) =>
                /\ skipped' = skipped
                /\ processed' = processed \cup {strategy.steps[stepIdx].step_id} ]_vars
    /\ [](  (pc = "except" /\ stepIdx <= Len(strategy.steps)) =>
                /\ exc = "AttributeError"
                /\ strategy.steps[stepIdx].action = "search"
                /\ strategy.steps[stepIdx].depends_on # <<>> )

\* the first step searched and every result scored 0; the second step, which
\* depends on it, was processed, and the walk reached the end of the plan
C27_Witness ==
    /\ pc = "steps" /\ exc = "none"
    /\ Len(strategy.steps) = 2 /\ stepIdx = 3
    /\ strategy.steps[1].action = "search"
    /\ all_search_queries # <<>>
    /\ all_refined_data = <<>>
    /\ DOMAIN step_results = {1, 2}
    /\ step_results[1] = <<>>
    /\ strategy.steps[2].depends_on = <<1>>
    /\ processed = {1, 2} /\ skipped = {}

\* the queries of the steps a step declares as its dependencies
DependencyQueries(step) ==
    UNION { Range(strategy.steps[step.depends_on[k]].search_queries) :
              k \in {n \in DOMAIN step.depends_on : step.depends_on[n] \in DOMAIN strategy.steps} }

\* the dependency results of the current step have been collected and are
\* being handed to the context resolver
ContextCollected == pc = "except" /\ exc = "AttributeError" /\ stepIdx \in DOMAIN strategy.steps

\* C28: the dependency results collected for a step's augmentation are exactly
\* the usable results of the steps its depends_on lists: every entry has a
\* score above 0 and answers a query of a declared dependency, and every
\* accumulated result of a declared dependency is there exactly once.
C28_ContextIsUsableDependencyResults ==
    ContextCollected =>
        /\ \A i \in DOMAIN previous_data :
              /\ previous_data[i].score > 0
              /\ previous_data[i].query \in DependencyQueries(strategy.steps[stepIdx])
        /\ \A i \in DOMAIN all_refined_data :
              all_refined_data[i].query \in DependencyQueries(strategy.steps[stepIdx])
                 => \E j \in DOMAIN previous_data : previous_data[j] = all_refined_data[i]
        /\ \A i, j \in DOMAIN previous_data : previous_data[i] = previous_data[j] => i = j

\* the last step depends on the second step alone: the first step has a usable
\* result that is left out, and of the second step's two results the one that
\* scored 0 is left out and the usable one is the whole context
C28_Witness ==
    /\ ContextCollected
    /\ strategy.steps[stepIdx].depends_on = <<2>>
    /\ DOMAIN step_results = {1, 2}
    /\ step_results[1] # <<>>
    /\ Len(strategy.steps[2].search_queries) = 2
    /\ Len(step_results[2]) = 1
    /\ previous_data = step_results[2]
    /\ Len(all_refined_data) = 2

\* C29: generate_answer is invoked at most once, only after the walk has gone
\* past the last step and only with a non-empty accumulated list; a call that
\* ended after the walk completed has invoked it exactly once if the
\* accumulated list is non-empty and never otherwise, whatever steps the plan
\* is made of.
C29_AnswerGeneratedOnceIffDataFound ==
    /\ [][genCalls' # genCalls =>
             /\ genCalls = 0 /\ genCalls' = 1
             /\ pc = "steps"
             /\ stepIdx = Len(strategy.steps) + 1
             /\ tasks = <<>>
             /\ all_refined_data # <<>>]_vars
    /\ []((pc \in {"returned", "raised"} /\ stepIdx > Len(strategy.steps)) =>
             genCalls = IF all_refined_data = <<>> THEN 0 ELSE 1)

\* a chain of two search steps and no generation step ended with the answer
\* generated once from what both steps found
C29_Witness ==
    /\ pc \in {"returned", "raised"}
    /\ strategy.execution_type = "chain"
    /\ Len(strategy.steps) = 2
    /\ \A k \in DOMAIN strategy.steps : strategy.steps[k].action = "search"
    /\ stepIdx = 3
    /\ DOMAIN step_results = {1, 2}
    /\ step_results[1] # <<>> /\ step_results[2] # <<>>
    /\ genCalls = 1

\* C30: a session_manager method is called, and the saved conversation or the
\* recorded turns change, only before planning (while research() sets the
\* session up) or once step execution is over: after the walk has gone past
\* the last step with no resolution left, or in the except clause.  Between
\* the start of planning and the end of the walk the calls made are exactly
\* those of the setup.
C30_SessionTouchedOnlyAtTheEnds ==
    /\ [][ /\ session_calls' # session_calls =>
                \/ pc = "start"
                \/ pc = "steps" /\ stepIdx = Len(strategy.steps) + 1 /\ tasks = <<>>
                \/ pc = "except"
           /\ (conversation' # conversation \/ turns' # turns) =>
                session_calls' # session_calls ]_vars
    /\ []( (pc \in {"plan", "steps", "resolve"}) =>
              /\ session_calls # <<>>
              /\ session_calls[Len(session_calls)] = "save_conversation_message"
              /\ \A i \in DOMAIN session_calls :
                    session_calls[i] \in {"create_session", "is_session_active",
                                          "load_conversation_history",
                                          "save_conversation_message"}
              /\ Len(SelectSeq(session_calls,
                               LAMBDA c : c = "save_conversation_message")) = 1
              /\ conversation = <<"user">> /\ turns = <<>> )

\* a call with an inactive session id and no history walked a two-step plan,
\* generated the answer and failed recording the turn: the history was loaded
\* during setup and the store was next touched for the assistant message
C30_Witness ==
    /\ pc = "except"
    /\ Len(strategy.steps) = 2 /\ stepIdx = 3
    /\ processed = {1, 2}
    /\ genCalls = 1
    /\ session_calls = <<"is_session_active", "create_session",
                         "load_conversation_history", "save_conversation_message",
                         "save_conversation_message", "get_turn_count">>

\* C31: the progress callback has no effect on control flow: whatever callback
\* research() was given, the call leaves the planning point as a call without
\* callback does, by calling the planner and starting the walk with the plan
\* the planner returned, and no exception comes from the callback.
C31_ProgressSinkObservational ==
    /\ [][pc = "plan" =>
             /\ pc' = "steps"
             /\ planner_in' # NoPlannerOutcome
             /\ strategy' = plan_research_strategy(UserQuery, planner_in')
             /\ exc' = "none"]_vars
    /\ [](exc # "CallbackError")

\* C32: building the sources of a result never raises: an index the refiner
\* reports outside the filtered document list is dropped, so no resolution
\* ends with IndexError, and every source of a returned result is a document
\* of the list the refiner was given.
C32_OutOfRangeIndicesDropped ==
    \A i \in DOMAIN tasks :
        /\ tasks[i].err # "IndexError"
        /\ tasks[i].pc = "done" =>
              \A k \in DOMAIN tasks[i].result.sources :
                 \E d \in DOMAIN tasks[i].refiner_input :
                    tasks[i].refiner_input[d].url = tasks[i].result.sources[k]

\* C33: when every external call eventually returns or raises, a research
\* call eventually returns a result.
C33_ResultEventuallyReturned == <>(pc = "returned")

\* the call does come to an end: the walk is finite and every loop is bounded
C33_CallEnds == <>(pc \in {"returned", "raised"})

\* coroutine i calls the refiner in this step
RefinerCalled(i) ==
    /\ i \in DOMAIN tasks /\ i \in DOMAIN tasks'
    /\ tasks'[i].refines = tasks[i].refines + 1

\* C34: with max_retries = 3 and the refiner's max_retries = 1, one resolver
\* invocation calls the refiner at most twice; a refiner call after which the
\* loop goes on was made at attempt counter 0; a refiner call at attempt
\* counter 1 or more ends the resolver, which then returns that attempt's
\* result without exhausting the attempts; and a resolver that returns its
\* best_result through exhaustion refined once, at counter 0, and failed
\* search validation in its three other attempts.
C34_RefinerCalledAtMostTwice ==
    /\ max_retries = 3 /\ refiner_max_retries = 1
    /\ [](\A i \in DOMAIN tasks :
             /\ tasks[i].refines <= 2
             /\ (tasks[i].pc = "done" /\ tasks[i].retry_count > max_retries
                    /\ tasks[i].result.error = "none") =>
                   /\ tasks[i].result = tasks[i].best_result
                   /\ tasks[i].refines = 1
                   /\ tasks[i].searches = 4)
    /\ [][\A i \in 1..(MaxQueries + 1) :
             RefinerCalled(i) =>
                /\ tasks'[i].pc = "run" =>
                      (tasks[i].retry_count = 0 /\ tasks'[i].retry_count = 1)
                /\ tasks[i].retry_count >= 1 =>
                      /\ tasks'[i].pc \in {"done", "raised"}
                      /\ tasks'[i].retry_count = tasks[i].retry_count
                      /\ tasks'[i].pc = "done" =>
                            (tasks'[i].result.error = "none"
                               /\ tasks'[i].result.query = tasks[i].query)]_vars

\* the refiner asked for a retry at counter 0, the next search found nothing
\* substantial, and the refiner call at counter 2 ended the resolver
C34_Witness ==
    \E i \in DOMAIN tasks :
        /\ tasks[i].pc = "done"
        /\ tasks[i].refines = 2
        /\ tasks[i].searches = 3
        /\ tasks[i].retry_count = 2
        /\ tasks[i].result.score < RetryScore

\* step k lists a skipped step in depends_on, directly or through a chain of
\* at most n dependencies
RECURSIVE DependsOnSkipped(_, _)
DependsOnSkipped(k, n) ==
    /\ n > 0
    /\ \E d \in Range(strategy.steps[k].depends_on) :
          \/ d \in skipped
          \/ d \in DOMAIN strategy.steps /\ DependsOnSkipped(d, n - 1)

\* C35: a skipped step never gets an entry in step_results; a step that is
\* walked while one of its dependencies is a skipped step is skipped too, so
\* every walked step that depends on a skipped step, directly or through a
\* chain, is skipped; and a step whose dependencies are all recorded (or that
\* has none) is not skipped.
C35_SkippingIsTransitive ==
    /\ [](/\ skipped \cap DOMAIN step_results = {}
          /\ skipped \cap processed = {}
          /\ \A k \in DOMAIN strategy.steps :
                (k < stepIdx /\ DependsOnSkipped(k, Len(strategy.steps))) =>
                    k \in skipped)
    /\ [][(pc = "steps" /\ stepIdx <= Len(strategy.steps)) =>
             /\ (\E d \in Range(strategy.steps[stepIdx].depends_on) : d \in skipped) =>
                   /\ skipped' = skipped \cup {strategy.steps[stepIdx].step_id}
                   /\ step_results' = step_results
                   /\ processed' = processed
                   /\ tasks' = <<>>
                   /\ stepIdx' = stepIdx + 1
             /\ (\A d \in Range(strategy.steps[stepIdx].depends_on) :
                    d \in DOMAIN step_results) =>
                   skipped' = skipped]_vars

\* the first step was skipped (its dependency comes later) and the second
\* step, which depends on the first, was skipped for that reason
C35_Witness ==
    /\ Len(strategy.steps) = 2 /\ stepIdx = 3
    /\ strategy.steps[1].depends_on = <<2>>
    /\ strategy.steps[2].depends_on = <<1>>
    /\ skipped = {1, 2}
    /\ step_results = <<>> /\ processed = {}

\* C36: when a search step finishes, every query it adds to all_search_queries
\* was handed to the search service by one of the step's resolutions, and every
\* query a resolution searched for is added exactly once.
C36_RecordedQueriesWereDispatched ==
    [][(pc = "resolve" /\ pc' = "steps") =>
          LET added == SubSeq(all_search_queries', Len(all_search_queries) + 1,
                              Len(all_search_queries'))
          IN  /\ \A k \in DOMAIN added :
                    \E i \in DOMAIN tasks :
                       tasks[i].query = added[k] /\ tasks[i].searches >= 1
              /\ \A i \in DOMAIN tasks :
                    tasks[i].searches >= 1 =>
                       Cardinality({k \in DOMAIN added : added[k] = tasks[i].query}) = 1]_vars

\* C37: a research call that has come to its end, on the synthesized, the
\* canned or the error exit, has appended one user message followed by one
\* assistant message to the conversation and recorded exactly one turn.
C37_OneExchangeAndOneTurnPerCall ==
    (pc \in {"returned", "raised"}) =>
        /\ conversation = <<"user", "assistant">>
        /\ Len(turns) = 1

(***************************************************************************)
(* SessionManager called directly on one session, the clock advancing      *)
(* between the calls                                                       *)
(***************************************************************************)
\* minutes the clock advances in one step
TickMinutes == 16

\* the clock stops here
MaxClock == 64

\* messages, and turns, one session stores at most
MaxStored == 2

\* everything but the session store, the clock and the returned value
researchVars ==
    <<pc, strategy, stepIdx, step_results, all_refined_data, all_search_queries,
      urls_used, tasks, order, step_refined_data, processed, skipped, exc, outcome,
      genCalls, planner_in, refiner_call, augmenter, previous_data, session_calls,
      progress_callback, calls, doubles>>

InitManager ==
    /\ pc = "direct"
    /\ strategy = NoPlan
    /\ stepIdx = 1
    /\ step_results = <<>>
    /\ all_refined_data = <<>>
    /\ all_search_queries = <<>>
    /\ urls_used = <<>>
    /\ tasks = <<>>
    /\ order = <<>>
    /\ step_refined_data = <<>>
    /\ processed = {}
    /\ skipped = {}
    /\ exc = "none"
    /\ outcome = NoOutcome
    /\ genCalls = 0
    /\ conversation = <<>>
    /\ turns = <<>>
    /\ planner_in = NoPlannerOutcome
    /\ refiner_call = NoRefinerCall
    /\ augmenter = NoAugmenterCall
    /\ progress_callback = "none"
    /\ session_calls = <<>>
    /\ previous_data = <<>>
    /\ doubles = NoDoubles
    /\ calls = <<>>
    /\ metadata = create_session(0)
    /\ now = 0
    /\ returned = [NoReturn EXCEPT !.op = "create_session"]

Tick ==
    /\ now + TickMinutes <= MaxClock
    /\ now' = now + TickMinutes
    /\ UNCHANGED <<metadata, returned, conversation, turns, researchVars>>

IsSessionActive ==
    LET a == is_session_active(metadata, now)
    IN  /\ metadata' = a.metadata
        /\ returned' = [NoReturn EXCEPT !.op = "is_session_active", !.active = a.active]
        /\ UNCHANGED <<now, conversation, turns, researchVars>>

UpdateLastActivity ==
    /\ metadata' = update_last_activity(metadata, now)
    /\ returned' = [NoReturn EXCEPT !.op = "update_last_activity"]
    /\ UNCHANGED <<now, conversation, turns, researchVars>>

SaveConversationMessage(role) ==
    LET s == save_conversation_message(metadata, now, conversation, role)
    IN  /\ Len(conversation) < MaxStored
        /\ metadata' = s.metadata
        /\ conversation' = s.conversation
        /\ returned' = [NoReturn EXCEPT !.op = "save_conversation_message"]
        /\ UNCHANGED <<now, turns, researchVars>>

SaveTurn(turn_id) ==
    LET s == save_turn(metadata, now, turns, [turn_id |-> turn_id, strategy |-> "direct"])
    IN  /\ Len(turns) < MaxStored
        /\ metadata' = s.metadata
        /\ turns' = s.turns
        /\ returned' = [NoReturn EXCEPT !.op = "save_turn"]
        /\ UNCHANGED <<now, conversation, researchVars>>

LoadConversationHistory ==
    LET l == load_conversation_history(metadata, now, conversation)
    IN  /\ metadata' = l.metadata
        /\ returned' = [NoReturn EXCEPT !.op = "load_conversation_history",
                                        !.history = l.history]
        /\ UNCHANGED <<now, conversation, turns, researchVars>>

GetTurnCount ==
    LET c == get_turn_count(metadata, now, turns)
    IN  /\ metadata' = c.metadata
        /\ returned' = [NoReturn EXCEPT !.op = "get_turn_count", !.count = c.count]
        /\ UNCHANGED <<now, conversation, turns, researchVars>>

EndSession ==
    /\ metadata' = end_session(metadata, "manual", now)
    /\ returned' = [NoReturn EXCEPT !.op = "end_session"]
    /\ UNCHANGED <<now, conversation, turns, researchVars>>

NextManager ==
    \/ Tick
    \/ IsSessionActive
    \/ UpdateLastActivity
    \/ \E role \in {"user", "assistant"} : SaveConversationMessage(role)
    \/ \E turn_id \in 1..MaxStored : SaveTurn(turn_id)
    \/ LoadConversationHistory
    \/ GetTurnCount
    \/ EndSession

SpecManager == InitManager /\ [][NextManager]_vars

\* the session was ended manually, or found timed out by is_session_active
EndedOrTimedOut == metadata.end_reason \in {"manual", "timeout"}

\* C39: once a session is ended manually or found timed out, it stays so:
\* every later is_session_active answers false, every later
\* save_conversation_message and save_turn leaves the stored conversation and
\* turns as they were, and load_conversation_history returns the empty list.
C39_EndedIsAbsorbing ==
    [][EndedOrTimedOut =>
          /\ EndedOrTimedOut'
          /\ metadata'.status = "ended"
          /\ conversation' = conversation
          /\ turns' = turns
          /\ (IsSessionActive => ~returned'.active)
          /\ (LoadConversationHistory => returned'.history = <<>>)]_vars

\* a message and a turn were stored, the session was found timed out, the
\* clock moved on, and a load on the ended session has returned
C39_Witness ==
    /\ metadata.end_reason = "timeout"
    /\ now > metadata.ended_at
    /\ Len(conversation) > 0
    /\ Len(turns) > 0
    /\ returned.op = "load_conversation_history"

(***************************************************************************)
(* research() called several times on one session, the calls interleaving  *)
(* at their awaits (lines 98, 102 and 119)                                 *)
(***************************************************************************)
\* research() calls made on the session
ConcurrentCalls == 2

\* everything but the session store, the clock and the calls
storeFrame ==
    <<pc, strategy, stepIdx, step_results, all_refined_data, all_search_queries,
      urls_used, tasks, order, step_refined_data, processed, skipped, exc, outcome,
      genCalls, planner_in, refiner_call, augmenter, previous_data, session_calls,
      progress_callback, returned, doubles>>

InitTurns ==
    /\ pc = "direct"
    /\ strategy = NoPlan
    /\ stepIdx = 1
    /\ step_results = <<>>
    /\ all_refined_data = <<>>
    /\ all_search_queries = <<>>
    /\ urls_used = <<>>
    /\ tasks = <<>>
    /\ order = <<>>
    /\ step_refined_data = <<>>
    /\ processed = {}
    /\ skipped = {}
    /\ exc = "none"
    /\ outcome = NoOutcome
    /\ genCalls = 0
    /\ conversation = <<>>
    /\ turns = <<>>
    /\ planner_in = NoPlannerOutcome
    /\ refiner_call = NoRefinerCall
    /\ augmenter = NoAugmenterCall
    /\ progress_callback = "none"
    /\ session_calls = <<>>
    /\ previous_data = <<>>
    /\ doubles = NoDoubles
    /\ calls = [c \in 1..ConcurrentCalls |-> "idle"]
    /\ metadata = create_session(0)
    /\ now = 0
    /\ returned = [NoReturn EXCEPT !.op = "create_session"]

\* one call of _save_turn_to_session on the session: get_turn_count, TurnData,
\* and save_turn when TurnData was built
SaveTurnToSession(m, t, ts, tag) ==
    LET c == get_turn_count(m, t, ts)
        s == _save_turn_to_session(ts, tag)
    IN  IF s.raised
        THEN [raised |-> TRUE, metadata |-> c.metadata, turns |-> ts]
        ELSE LET w == save_turn(c.metadata, t, ts, s.turns[Len(s.turns)])
             IN  [raised |-> FALSE, metadata |-> w.metadata, turns |-> w.turns]

\* the end of research(): the turn is saved on the exit taken (lines 111 or
\* 126) and, when that raises, once more by the handler (line 158)
EndOfCall(m, t, ts, tag) ==
    LET first == SaveTurnToSession(m, t, ts, tag)
        again == SaveTurnToSession(first.metadata, t, first.turns, "error")
    IN  IF ~first.raised
        THEN [pc |-> "returned", metadata |-> first.metadata, turns |-> first.turns]
        ELSE [pc |-> IF again.raised THEN "raised" ELSE "returned",
              metadata |-> again.metadata, turns |-> again.turns]

\* lines 77-97: a call on an inactive session moves to a new session; otherwise
\* the history is loaded and the user message saved
BeginCall(c) ==
    LET a == is_session_active(metadata, now)
        l == load_conversation_history(a.metadata, now, conversation)
        s == save_conversation_message(l.metadata, now, conversation, "user")
    IN  /\ calls[c] = "idle"
        /\ IF ~a.active
           THEN /\ calls' = [calls EXCEPT ![c] = "elsewhere"]
                /\ metadata' = a.metadata
                /\ UNCHANGED conversation
           ELSE /\ calls' = [calls EXCEPT ![c] = "planning"]
                /\ metadata' = s.metadata
                /\ conversation' = s.conversation
        /\ UNCHANGED <<now, turns, storeFrame>>

\* line 98: the planner has answered
CallPlanned(c) ==
    /\ calls[c] = "planning"
    /\ calls' = [calls EXCEPT ![c] = "executing"]
    /\ UNCHANGED <<metadata, now, conversation, turns, storeFrame>>

\* lines 102-115: the steps have run; with nothing found the canned answer is
\* built and the turn saved
CallExecuted(c, found) ==
    LET e == EndOfCall(metadata, now, turns, "single")
    IN  /\ calls[c] = "executing"
        /\ IF found
           THEN /\ calls' = [calls EXCEPT ![c] = "synthesizing"]
                /\ UNCHANGED <<metadata, turns>>
           ELSE /\ calls' = [calls EXCEPT ![c] = e.pc]
                /\ metadata' = e.metadata
                /\ turns' = e.turns
        /\ UNCHANGED <<now, conversation, storeFrame>>

\* lines 119-139: the answer is generated, the assistant message and the turn saved
CallSynthesized(c) ==
    LET s == save_conversation_message(metadata, now, conversation, "assistant")
        e == EndOfCall(s.metadata, now, turns, "single")
    IN  /\ calls[c] = "synthesizing"
        /\ calls' = [calls EXCEPT ![c] = e.pc]
        /\ conversation' = s.conversation
        /\ metadata' = e.metadata
        /\ turns' = e.turns
        /\ UNCHANGED <<now, storeFrame>>

\* lines 141-160: an await raised; the handler saves the error turn
CallFailed(c) ==
    LET e == SaveTurnToSession(metadata, now, turns, "error")
    IN  /\ calls[c] \in {"executing", "synthesizing"}
        /\ calls' = [calls EXCEPT ![c] = IF e.raised THEN "raised" ELSE "returned"]
        /\ metadata' = e.metadata
        /\ turns' = e.turns
        /\ UNCHANGED <<now, conversation, storeFrame>>

\* time passes while the calls wait
ClockMoves ==
    /\ now + TickMinutes <= MaxClock
    /\ now' = now + TickMinutes
    /\ UNCHANGED <<metadata, calls, conversation, turns, storeFrame>>

NextTurns ==
    \/ ClockMoves
    \/ \E c \in 1..ConcurrentCalls :
          \/ BeginCall(c)
          \/ CallPlanned(c)
          \/ \E found \in BOOLEAN : CallExecuted(c, found)
          \/ CallSynthesized(c)
          \/ CallFailed(c)

SpecTurns == InitTurns /\ [][NextTurns]_vars

====
